---- MODULE Spec2Model ----
(***************************************************************************)
(* Weekly meal planner of whats-for-dinner: the ingredient normalizer and  *)
(* aggregator (src/recommender/ingredient_parser.py), the preference       *)
(* scorer and the combination search (src/recommender/weekly_planner.py),  *)
(* and the /weekly-planner route that stores the plan as a shopping list   *)
(* (src/web/app.py).                                                       *)
(***************************************************************************)
EXTENDS Integers, Sequences, FiniteSets, TLC

(***************************************************************************)
(* The state: the tables the planner reads and the route writes, the       *)
(* request at hand and the locals of its get_weekly_recommendations call.  *)
(* The route passes num_recipes = 3; the model lets the argument range, so *)
(* that the function is covered for the other values it accepts.           *)
(***************************************************************************)
VARIABLES
    recipe_rows,        \* number of rows of the recipes table; their ids are 1..recipe_rows
    exclude_ids,        \* ids get_available_recipes excludes (recently sent or rated <= 2)
    user,               \* the User row: id and max_ingredients_per_week
    user_prefs,         \* the user's UserPreference rows
    num_recipes,        \* the num_recipes argument
    shopping_lists,     \* the rows of shopping_lists, in insertion order
    requests,           \* number of /weekly-planner requests started
    previous,           \* what the previous request's planner call gave: result or "error"
    pc,                 \* where the request at hand stands
    available_recipes,  \* ids, in the order query.all() gave them
    recipe_scores,      \* id -> score, for the ids scored so far
    generated,          \* combinations the call has taken from itertools.combinations
    candidate_recipes,
    combo,              \* the combination the loop is at (positions), <<>> when exhausted
    best_combination,   \* ids; <<>> for None
    best_score,         \* <<>> for float('-inf'), <<x>> for the float x
    best_stats,         \* <<>> for None, <<stats>> otherwise
    result,             \* <<>> until the call returns, then <<[recipes, stats]>>
    direct_call,        \* a call of a function of the parser on its own: name and arguments
    returned,           \* <<>> until that call returns, then <<what it returned>>
    preference_rows,    \* the committed rows of user_preferences
    raters,             \* the callers of update_user_preference: their calls and position
    clock,              \* datetime.utcnow(), counted in writes
    recommendations,    \* the rows of recommendations, in insertion order
    outbox,             \* the e-mails sent: Message-ID and recipe ids
    rating_calls,       \* the calls of process_ratings and posts of the rate page so far
    outcome             \* what the last operation on the history did and returned

vars == << recipe_rows, exclude_ids, user, user_prefs, num_recipes, shopping_lists,
           requests, previous, pc, available_recipes, recipe_scores, generated,
           candidate_recipes, combo, best_combination, best_score, best_stats, result,
           direct_call, returned, preference_rows, raters, clock,
           recommendations, outbox, rating_calls, outcome >>

inputs == << recipe_rows, exclude_ids, user, user_prefs, num_recipes >>
direct == << direct_call, returned >>
learner == << preference_rows, raters, clock >>
history == << recommendations, outbox, rating_calls, outcome >>
locals == << available_recipes, recipe_scores, generated, candidate_recipes, combo,
             best_combination, best_score, best_stats, result >>

(***************************************************************************)
(* Text helpers.  A Python str is a TLA+ string; characters are the        *)
(* one-character substrings.                                               *)
(***************************************************************************)
Char(s, i) == SubSeq(s, i, i)

UpperLetters == "ABCDEFGHIJKLMNOPQRSTUVWXYZ"
LowerLetters == "abcdefghijklmnopqrstuvwxyz"
Digits == "0123456789"

IsIn(c, alphabet) == \E i \in 1..Len(alphabet) : Char(alphabet, i) = c

\* the characters of a string
Chars(alphabet) == { Char(alphabet, i) : i \in 1..Len(alphabet) }

\* \d of the re module (ASCII digits)
DigitChars == Chars(Digits)
IsDigit(c) == c \in DigitChars

\* \s of the re module
SpaceChars == {" ", "\t", "\n", "\r"}
IsSpace(c) == c \in SpaceChars

\* \w of the re module (ASCII letters, digits, underscore)
WordChars == Chars(LowerLetters) \cup Chars(UpperLetters) \cup DigitChars \cup {"_"}
IsWordChar(c) == c \in WordChars

LowerChar(c) ==
    IF IsIn(c, UpperLetters)
    THEN Char(LowerLetters, CHOOSE i \in 1..Len(UpperLetters) : Char(UpperLetters, i) = c)
    ELSE c

RECURSIVE lower(_)
\* str.lower()
lower(s) == IF s = "" THEN "" ELSE LowerChar(Char(s, 1)) \o lower(SubSeq(s, 2, Len(s)))

RECURSIVE lstrip(_)
lstrip(s) == IF s # "" /\ IsSpace(Char(s, 1)) THEN lstrip(SubSeq(s, 2, Len(s))) ELSE s

RECURSIVE rstrip(_)
rstrip(s) == IF s # "" /\ IsSpace(Char(s, Len(s))) THEN rstrip(SubSeq(s, 1, Len(s) - 1)) ELSE s

\* str.strip()
strip(s) == rstrip(lstrip(s))

\* the entries of a list, as a set
Entries(list) == { list[i] : i \in 1..Len(list) }

\* str.endswith(suffix)
endswith(s, suffix) ==
    Len(s) >= Len(suffix) /\ SubSeq(s, Len(s) - Len(suffix) + 1, Len(s)) = suffix

\* `sub in s` for strings
contains(s, sub) ==
    \E i \in 1..(Len(s) - Len(sub) + 1) : SubSeq(s, i, i + Len(sub) - 1) = sub

\* first index >= from whose character is of the class, 0 when none
FirstIndex(s, from, class) ==
    IF \E i \in from..Len(s) : Char(s, i) \in class
    THEN CHOOSE i \in from..Len(s) :
            Char(s, i) \in class /\ \A j \in from..(i - 1) : Char(s, j) \notin class
    ELSE 0

\* first index >= i whose character is not of the class (Len(s) + 1 when none)
SkipWhile(s, i, class) ==
    CHOOSE e \in i..(Len(s) + 1) :
        /\ \A j \in i..(e - 1) : Char(s, j) \in class
        /\ e <= Len(s) => Char(s, e) \notin class

(***************************************************************************)
(* re.sub(r'\([^)]*\)', '', text): every "(" up to the next ")" is         *)
(* removed; a "(" with no ")" after it stays.                              *)
(***************************************************************************)
OpenParen == {"("}
CloseParen == {")"}

RECURSIVE RemoveParens(_)
\* s without its first match, which spans i..j, and the later ones (0: no match)
CutParens(s, i, j) ==
    IF i = 0 \/ j = 0 THEN s
    ELSE SubSeq(s, 1, i - 1) \o RemoveParens(SubSeq(s, j + 1, Len(s)))

\* the first ")" after the "(" at i
ClosingParen(s, i) == IF i = 0 THEN 0 ELSE FirstIndex(s, i + 1, CloseParen)

OpenedAt(s, i) == CutParens(s, i, ClosingParen(s, i))

RemoveParens(s) == OpenedAt(s, FirstIndex(s, 1, OpenParen))

(***************************************************************************)
(* re.sub(r'\d+[\s-]?\d*\/?\d*', '', text): a run of digits, then at most   *)
(* one blank or hyphen, digits, at most one slash, digits.                 *)
(***************************************************************************)
BlankOrHyphen == SpaceChars \cup {"-"}
Slash == {"/"}

\* the index after the character at i when it is of the class, i otherwise
SkipOne(s, i, class) == IF i <= Len(s) /\ Char(s, i) \in class THEN i + 1 ELSE i

\* the index after the match that starts with the digit at i
NumberEnd(s, i) ==
    SkipWhile(s,
              SkipOne(s, SkipWhile(s, SkipOne(s, SkipWhile(s, i, DigitChars), BlankOrHyphen),
                                   DigitChars),
                      Slash),
              DigitChars)

RECURSIVE RemoveNumbers(_)
\* s without the match that starts at its first digit, i, and the later ones
CutNumber(s, i) ==
    IF i = 0 THEN s
    ELSE SubSeq(s, 1, i - 1) \o RemoveNumbers(SubSeq(s, NumberEnd(s, i), Len(s)))

RemoveNumbers(s) == CutNumber(s, FirstIndex(s, 1, DigitChars))

(***************************************************************************)
(* The \b(w1|w2|...)\b patterns.  Every alternative starts and ends with a *)
(* word character, so a match starts at the start of a maximal run of word *)
(* characters and ends at the end of one: the text is cut into tokens (the *)
(* maximal runs of word characters, and every other character alone) and a *)
(* match is a run of tokens equal to the tokens of an alternative.         *)
(***************************************************************************)
RECURSIVE Tokenize(_)
\* the token s[1..e-1], then the tokens of the rest
TokenUpTo(s, e) == <<SubSeq(s, 1, e - 1)>> \o Tokenize(SubSeq(s, e, Len(s)))

Tokenize(s) ==
    IF s = "" THEN <<>>
    ELSE IF IsWordChar(Char(s, 1))
         THEN TokenUpTo(s, SkipWhile(s, 1, WordChars))
         ELSE TokenUpTo(s, 2)

RECURSIVE Join(_)
Join(tokens) == IF tokens = <<>> THEN "" ELSE Head(tokens) \o Join(Tail(tokens))

\* the alternative (a token sequence) matches the tokens at position 1
MatchesAt(tokens, alt) ==
    Len(alt) <= Len(tokens) /\ SubSeq(tokens, 1, Len(alt)) = alt

\* the first alternative, in the pattern's order, that matches at position 1; 0 when none
FirstAlternative(tokens, alts) ==
    IF \E a \in 1..Len(alts) : MatchesAt(tokens, alts[a])
    THEN CHOOSE a \in 1..Len(alts) :
            MatchesAt(tokens, alts[a]) /\ \A b \in 1..(a - 1) : ~MatchesAt(tokens, alts[b])
    ELSE 0

RECURSIVE RemoveAlternatives(_, _)
\* the tokens without the match of alternative a at position 1 (a = 0: no match
\* there, the first token stays), and without the later matches
CutAlternative(tokens, alts, a) ==
    IF a = 0
    THEN <<Head(tokens)>> \o RemoveAlternatives(Tail(tokens), alts)
    ELSE RemoveAlternatives(SubSeq(tokens, Len(alts[a]) + 1, Len(tokens)), alts)

\* re.sub(r'\b(alt1|alt2|...)\b', '', text) on the tokens of text
RemoveAlternatives(tokens, alts) ==
    IF tokens = <<>> THEN <<>>
    ELSE CutAlternative(tokens, alts, FirstAlternative(tokens, alts))

Words(ws) == [i \in 1..Len(ws) |-> <<ws[i]>>]

RECURSIVE RemoveAll(_, _)
\* the patterns of a list applied one after the other
RemoveAll(tokens, patterns) ==
    IF patterns = <<>> THEN tokens
    ELSE RemoveAll(RemoveAlternatives(tokens, Head(patterns)), Tail(patterns))

\* the word patterns of `measurements`
measurements ==
    << Words(<<"cup", "cups", "tablespoon", "tablespoons", "teaspoon", "teaspoons",
               "tbsp", "tsp", "oz", "ounce", "ounces", "pound", "pounds", "lb", "lbs",
               "gram", "grams", "g", "kg", "ml", "l", "litre", "liter">>),
       Words(<<"can", "cans", "jar", "jars", "package", "packages", "bunch", "bunches",
               "clove", "cloves", "head", "heads", "pinch", "dash", "handful">>),
       Words(<<"to">>) >>

\* the word patterns of `prep_words`
prep_words ==
    << Words(<<"fresh", "frozen", "dried", "canned", "jarred", "organic", "raw", "cooked">>),
       Words(<<"chopped", "diced", "minced", "sliced", "grated", "shredded", "crushed",
               "whole", "halved", "quartered">>),
       Words(<<"finely", "coarsely", "roughly", "thinly", "thickly">>),
       << <<"optional">>, <<"or", " ", "to", " ", "taste">>, <<"to", " ", "taste">>,
          <<"as", " ", "needed">>, <<"for", " ", "serving">>, <<"for", " ", "garnish">> >>,
       << <<"plus", " ", "more">>, <<"and">>, <<"or">> >> >>

articles == << Words(<<"a", "an", "the">>) >>

\* re.sub(r'[,;].*$', '', text)
CommaOrSemicolon == {",", ";"}

UpTo(s, i) == IF i = 0 THEN s ELSE SubSeq(s, 1, i - 1)

CutAtComma(s) == UpTo(s, FirstIndex(s, 1, CommaOrSemicolon))

RECURSIVE CollapseSpaces(_)
\* re.sub(r'\s+', ' ', text)
CollapseSpaces(s) ==
    IF s = "" THEN ""
    ELSE IF IsSpace(Char(s, 1))
         THEN " " \o CollapseSpaces(SubSeq(s, SkipWhile(s, 1, SpaceChars), Len(s)))
         ELSE Char(s, 1) \o CollapseSpaces(SubSeq(s, 2, Len(s)))

\* the plural rules, in the order of the if/elif chain
Singular(text) ==
    IF endswith(text, "ies") THEN SubSeq(text, 1, Len(text) - 3) \o "y"
    ELSE IF endswith(text, "oes") THEN SubSeq(text, 1, Len(text) - 2)
    ELSE IF endswith(text, "ses") THEN SubSeq(text, 1, Len(text) - 2)
    ELSE IF endswith(text, "s") /\ Len(text) > 3 THEN SubSeq(text, 1, Len(text) - 1)
    ELSE text

\* the re.sub of each pattern of a list, one after the other
RemoveWords(text, patterns) == Join(RemoveAll(Tokenize(text), patterns))

\* the steps of normalize_ingredient_name, the last one outermost
normalize_ingredient_name(ingredient_string) ==
    strip(RemoveWords(
        Singular(strip(CollapseSpaces(CutAtComma(RemoveWords(
            RemoveWords(RemoveNumbers(RemoveParens(strip(lower(ingredient_string)))),
                        measurements),
            prep_words))))),
        articles))

(***************************************************************************)
(* Pantry staples.                                                         *)
(***************************************************************************)
PANTRY_STAPLES ==
    { "salt", "kosher salt", "sea salt",
      "ground black pepper", "ground white pepper",
      "olive oil", "vegetable oil", "canola oil", "cooking oil", "oil",
      "butter", "unsalted butter", "salted butter",
      "water", "ice", "ice water",
      "sugar", "brown sugar", "white sugar", "granulated sugar", "powdered sugar",
      "flour", "all-purpose flour", "bread flour",
      "baking powder", "baking soda",
      "vanilla", "vanilla extract",
      "garlic powder", "onion powder" }

\* the search without the word boundaries
SearchAnywhere(text, staple) == contains(text, staple)

\* re.search(r'\b' + re.escape(staple) + r'\b', text) for a staple made of word characters
SearchWord(text, staple) == \E token \in Entries(Tokenize(text)) : token = staple

\* the exact match, then the staples in turn
IsStaple(ingredient_lower) ==
    \/ ingredient_lower \in PANTRY_STAPLES
    \/ \E staple \in PANTRY_STAPLES :
          IF contains(staple, " ")
          THEN contains(ingredient_lower, staple)
          ELSE SearchWord(ingredient_lower, staple)

is_pantry_staple(ingredient) == IsStaple(strip(lower(ingredient)))

(***************************************************************************)
(* extract_quantity_from_ingredient: re.match of a run of the characters   *)
(* [\d\s\/\-\(\)\.] at the start, then at most one unit, the first of the  *)
(* alternatives (in the pattern's order) that the text continues with,     *)
(* letter case ignored; no word boundary is asked for.                     *)
(***************************************************************************)
QuantityChars == DigitChars \cup SpaceChars \cup {"/", "-", "(", ")", "."}

quantity_units ==
    << "cup", "cups", "tablespoon", "tablespoons", "teaspoon", "teaspoons", "tbsp", "tsp",
       "oz", "ounce", "ounces", "pound", "pounds", "lb", "lbs", "gram", "grams", "g", "kg",
       "ml", "l", "litre", "liter", "can", "cans", "jar", "jars", "package", "packages",
       "packet", "packets", "bunch", "bunches", "clove", "cloves", "head", "heads" >>

startswith(s, prefix) == Len(s) >= Len(prefix) /\ SubSeq(s, 1, Len(prefix)) = prefix

extract_quantity_from_ingredient(ingredient_string) ==
    LET text == strip(ingredient_string)
        e == SkipWhile(text, 1, QuantityChars)
        rest == lower(SubSeq(text, e, Len(text)))
        Hit(u) == startswith(rest, quantity_units[u])
        unit == IF \E u \in 1..Len(quantity_units) : Hit(u)
                THEN Len(quantity_units[
                        CHOOSE u \in 1..Len(quantity_units) :
                            Hit(u) /\ \A v \in 1..(u - 1) : ~Hit(v)])
                ELSE 0
    IN  IF e = 1 THEN "" ELSE strip(SubSeq(text, 1, e - 1 + unit))

(***************************************************************************)
(* The recipes table.  A Recipe row carries its id, title, the ingredients *)
(* column and the four attributes the scorer reads.  None stands for a     *)
(* NULL string column; a NULL ready_in_minutes is the empty sequence and a *)
(* value m is <<m>>.  The ingredients column is text: [tag |-> "json",     *)
(* value |-> entries] is text that json.loads turns into the list          *)
(* `entries`, [tag |-> "invalid"] is text that json.loads rejects.  An     *)
(* entry of the list is a dict ([tag |-> "dict", value |-> its fields]) or *)
(* a bare string ([tag |-> "str", value |-> the string]).                  *)
(***************************************************************************)
None == "None"

Dict(original) == [tag |-> "dict", value |-> [name |-> original, original |-> original]]
Str(text) == [tag |-> "str", value |-> text]
Json(entries) == [tag |-> "json", value |-> entries]

\* the ingredient lists the scrapers stored (json.dumps of a list of dicts)
IngredientLists ==
    << Json(<< Dict("2 cups diced red onions"), Dict("3 cloves garlic, minced"),
               Dict("Salt and pepper to taste") >>),
       Json(<< Dict("1 (15oz) can black beans, drained"), Dict("1 red onion"),
               Dict("2 tablespoons olive oil") >>),
       Json(<< Dict("1/2 cup fresh basil leaves"), Dict("1 pound cherry tomatoes, halved"),
               Str("garlic") >>),
       Json(<< Dict("Water"), Dict("2 tbsp") >>),
       Json(<< Dict("4 tomatoes"), Dict("2 eggs"), Dict("1 Red Onion, sliced") >>) >>

\* What else the ingredients field of a recipe dict can hold: the Text column
\* is nullable (None), the key can be missing from a dict built by hand
\* ("absent"), the text can be no JSON at all ("invalid"), and JSON text can
\* hold a value that is not a list: null, a number, a string (Python iterates
\* over its characters), an object (Python iterates over its keys).  The last
\* one is a list with an entry that has no 'original' key.
OtherIngredients ==
    << [tag |-> "none"],
       [tag |-> "json_null"],
       [tag |-> "json_number"],
       [tag |-> "json_string", value |-> << Str("e"), Str("g"), Str("g") >>],
       [tag |-> "json_object", value |-> << Str("tomato") >>],
       [tag |-> "absent"],
       [tag |-> "invalid"],
       Json(<< [tag |-> "dict", value |-> [name |-> "2 eggs"]], Str("2 eggs"),
               Dict("Salt") >>) >>

Cuisines == << "italian", "mexican", None >>
DishTypes == << "main course", None >>
Difficulties == << "easy", "hard", None, "easy" >>
ReadyInMinutes == << <<20>>, <<45>>, <<90>>, <<>>, <<30>>, <<0>>, <<60>> >>

Cycle(table, i) == table[((i - 1) % Len(table)) + 1]

Digit(d) == Char(Digits, d + 1)

RECURSIVE str(_)
\* str(n) for a natural number
str(n) == IF n < 10 THEN Digit(n) ELSE str(n \div 10) \o Digit(n % 10)

\* the row of the recipes table with primary key id
Recipe(id) ==
    [ id |-> id,
      title |-> "Recipe " \o str(id),
      ingredients |-> Cycle(IngredientLists, id),
      cuisine_type |-> Cycle(Cuisines, id),
      dish_type |-> Cycle(DishTypes, id),
      difficulty |-> Cycle(Difficulties, id),
      ready_in_minutes |-> Cycle(ReadyInMinutes, id) ]

(***************************************************************************)
(* Python floats.  A float is an IEEE 754 double: a sign and a magnitude   *)
(* of Significand significant bits.  The magnitude is kept in fixed point  *)
(* as Limbs limbs of LimbBits bits, most significant first, the first limb *)
(* being the integer part; this holds every double the planner computes.   *)
(* Bit positions are counted from 1, the most significant bit.             *)
(***************************************************************************)
Significand == 53
LimbBits == 16
Limbs == 5

RECURSIVE Pow2(_)
Pow2(n) == IF n = 0 THEN 1 ELSE 2 * Pow2(n - 1)

Base == Pow2(LimbBits)
Width == Limbs * LimbBits

\* the limb that holds bit position i, and the weight of the position in it
LimbOf(i) == ((i - 1) \div LimbBits) + 1
Unit(i) == Pow2(LimbBits - 1 - ((i - 1) % LimbBits))

Bit(m, i) == (m[LimbOf(i)] \div Unit(i)) % 2

RECURSIVE Expansion(_, _, _)
\* the first n limbs of r / k after the point, for 0 <= r < k
Expansion(r, k, n) ==
    IF n = 0 THEN <<>>
    ELSE <<(r * Base) \div k>> \o Expansion((r * Base) % k, k, n - 1)

RECURSIVE RemainderAfter(_, _, _)
\* what the long division of r by k leaves after n limbs
RemainderAfter(r, k, n) == IF n = 0 THEN r ELSE RemainderAfter((r * Base) % k, k, n - 1)

\* the number of bits of n > 0
BitLength(n) == CHOOSE e \in 1..LimbBits : Pow2(e - 1) <= n /\ n < Pow2(e)

\* the position of the first 1 bit of a magnitude whose first limb that is not 0 is q
LeadingIn(m, q) == q * LimbBits - BitLength(m[q]) + 1

\* the position of the first 1 bit, 0 when there is none
Leading(m) ==
    IF \A q \in 1..Len(m) : m[q] = 0 THEN 0
    ELSE LeadingIn(m, CHOOSE q \in 1..Len(m) : m[q] # 0 /\ \A h \in 1..(q - 1) : m[h] = 0)

\* some bit after position i is 1
Below(m, i) == m[LimbOf(i)] % Unit(i) # 0 \/ \E q \in (LimbOf(i) + 1)..Len(m) : m[q] # 0

\* the bits up to position i
Truncated(m, i) ==
    [q \in 1..Len(m) |->
        IF q < LimbOf(i) THEN m[q]
        ELSE IF q = LimbOf(i) THEN m[q] - (m[q] % Unit(i))
        ELSE 0]

RECURSIVE AddAt(_, _, _)
\* m plus `amount` in limb q
AddAt(m, q, amount) ==
    IF q = 0 THEN m
    ELSE IF m[q] + amount < Base THEN [m EXCEPT ![q] = m[q] + amount]
    ELSE AddAt([m EXCEPT ![q] = m[q] + amount - Base], q - 1, 1)

\* Round to nearest, ties to even, keeping the bits up to position `last`;
\* sticky: the exact value has more below the limbs given.
RoundAt(m, sticky, last) ==
    IF last >= Len(m) * LimbBits THEN m
    ELSE IF Bit(m, last + 1) = 1 /\ (sticky \/ Below(m, last + 1) \/ Bit(m, last) = 1)
         THEN AddAt(Truncated(m, last), LimbOf(last), Unit(last))
         ELSE Truncated(m, last)

\* the double nearest to an exact magnitude
RoundToDouble(m, sticky) ==
    IF Leading(m) = 0 THEN m ELSE RoundAt(m, sticky, Leading(m) + Significand - 1)

RECURSIVE AddLimbs(_, _, _, _)
\* the limbs 1..q of a + b, with the carry into limb q
AddLimbs(a, b, q, carry) ==
    IF q = 0 THEN <<>>
    ELSE Append(AddLimbs(a, b, q - 1, (a[q] + b[q] + carry) \div Base),
                (a[q] + b[q] + carry) % Base)

RECURSIVE SubLimbs(_, _, _, _)
\* the limbs 1..q of a - b for a >= b, with the borrow from limb q
SubLimbs(a, b, q, borrow) ==
    IF q = 0 THEN <<>>
    ELSE Append(SubLimbs(a, b, q - 1, IF a[q] < b[q] + borrow THEN 1 ELSE 0),
                (Base + a[q] - b[q] - borrow) % Base)

RECURSIVE TimesLimbs(_, _, _, _)
\* the limbs 1..q of m * c for a small c, with the carry into limb q
TimesLimbs(m, c, q, carry) ==
    IF q = 0 THEN <<>>
    ELSE Append(TimesLimbs(m, c, q - 1, (m[q] * c + carry) \div Base),
                (m[q] * c + carry) % Base)

LessLimbs(a, b) == \E q \in 1..Len(a) : a[q] < b[q] /\ \A h \in 1..(q - 1) : a[h] = b[h]

Abs(n) == IF n < 0 THEN 0 - n ELSE n

\* n / k in Python, for an integer-valued float n and an int k > 0
FloatDiv(n, k) ==
    [ neg |-> n < 0,
      mag |-> RoundToDouble(<<Abs(n) \div k>> \o Expansion(Abs(n) % k, k, Limbs - 1),
                            RemainderAfter(Abs(n) % k, k, Limbs - 1) # 0) ]

\* n * 0.5 for a natural number n: exact
Halves(n) ==
    [ neg |-> FALSE,
      mag |-> [q \in 1..Limbs |->
                  IF q = 1 THEN n \div 2 ELSE IF q = 2 THEN (n % 2) * (Base \div 2) ELSE 0] ]

\* x - y for a float x and a float y >= 0
FloatMinus(x, y) ==
    IF x.neg THEN [neg |-> TRUE, mag |-> RoundToDouble(AddLimbs(x.mag, y.mag, Limbs, 0), FALSE)]
    ELSE IF LessLimbs(x.mag, y.mag)
         THEN [neg |-> TRUE, mag |-> RoundToDouble(SubLimbs(y.mag, x.mag, Limbs, 0), FALSE)]
         ELSE [neg |-> FALSE, mag |-> RoundToDouble(SubLimbs(x.mag, y.mag, Limbs, 0), FALSE)]

\* x > y
FloatGreater(x, y) ==
    IF x.neg # y.neg THEN y.neg
    ELSE IF x.neg THEN LessLimbs(x.mag, y.mag) ELSE LessLimbs(y.mag, x.mag)

\* x * 100
FloatTimes100(x) ==
    [neg |-> x.neg, mag |-> RoundToDouble(TimesLimbs(x.mag, 100, Limbs, 0), FALSE)]

Signed(neg, n) == IF neg THEN 0 - n ELSE n

\* round(x, digits) in units of 10^-digits, scale being 10^digits: the decimal
\* nearest to the exact value of the double, ties to even
RoundTo(x, scale) ==
    Signed(x.neg, RoundAt(TimesLimbs(x.mag, scale, Limbs, 0), FALSE, LimbBits)[1])

\* round(x, 1), in tenths
Round1(x) == RoundTo(x, 10)

\* A faulty round(x, 2): the digits after the second are cut off, int(x * 100) / 100.
Truncate2(x) == Signed(x.neg, TimesLimbs(x.mag, 100, Limbs, 0)[1])

\* round(x, 2), in hundredths
Round2(x) == RoundTo(x, 100)

(***************************************************************************)
(* The ingredient aggregator.                                              *)
(***************************************************************************)
\* recipe.get('ingredients', []), parsed when it is text; a parse failure gives []
LoadIngredients(recipe) ==
    IF recipe.ingredients.tag \in {"json", "json_string", "json_object"}
    THEN recipe.ingredients.value
    ELSE <<>>

\* `for ingredient in ingredients` needs an iterable: None (the column's NULL,
\* or the JSON text null) and a number are not, and the loop raises TypeError
Iterable(recipe) == recipe.ingredients.tag \notin {"none", "json_null", "json_number"}

\* the aggregator's loop over the recipes raises at the first such recipe
RaisesTypeError(recipes) == \E recipe \in Entries(recipes) : ~Iterable(recipe)

\* ingredient.get('original', '') for a dict, str(ingredient) otherwise
OriginalText(ingredient) ==
    IF ingredient.tag = "dict"
    THEN IF "original" \in DOMAIN ingredient.value THEN ingredient.value.original ELSE ""
    ELSE ingredient.value

\* What the loops of the aggregator compute for one original text: its
\* normalized name and whether the name is kept, the test being
\* `normalized and not is_pantry_staple(normalized)`.
\* the test without its second half: staples are kept
LineKeepingStaples(original, normalized) ==
    [ original |-> original,
      normalized |-> normalized,
      kept |-> normalized # "" ]

Line(original, normalized) ==
    [ original |-> original,
      normalized |-> normalized,
      kept |-> normalized # "" /\ ~is_pantry_staple(normalized) ]

\* the original texts of the recipes table
TableLines ==
    UNION { { OriginalText(ingredient) : ingredient \in Entries(list.value) } :
            list \in { l \in Entries(IngredientLists) \cup Entries(OtherIngredients) :
                         "value" \in DOMAIN l } }

\* The functions of the parser are pure: they are applied to every text of the
\* recipes table here, and the aggregator reads their values.
ParsedLines ==
    [original \in TableLines |-> Line(original, normalize_ingredient_name(original))]

Quantities ==
    [original \in TableLines |-> extract_quantity_from_ingredient(original)]

\* the original texts of the ingredients of a recipe, in order
Originals(recipe) ==
    [i \in 1..Len(LoadIngredients(recipe)) |-> OriginalText(LoadIngredients(recipe)[i])]

\* the set emptied at every recipe: what remains is the last recipe's
UniqueOfLast(recipes) ==
    IF recipes = <<>> THEN {}
    ELSE { line.normalized :
             line \in { parsed \in { ParsedLines[original] :
                                       original \in Entries(Originals(recipes[Len(recipes)])) } :
                          parsed.kept } }

extract_unique_ingredients(recipes) ==
    { line.normalized :
        line \in { parsed \in { ParsedLines[original] :
                                  original \in UNION { Entries(Originals(recipe)) :
                                                         recipe \in Entries(recipes) } } :
                     parsed.kept } }

count_ingredients_for_recipes(recipes) == Cardinality(extract_unique_ingredients(recipes))

RECURSIVE SumSeq(_)
SumSeq(numbers) == IF numbers = <<>> THEN 0 ELSE Head(numbers) + SumSeq(Tail(numbers))

\* A faulty dict: total_ingredients reports the sum over the recipes taken apart.
SavingsDictOfParts(total_ingredients, ingredients_if_separate, savings) ==
    [ total_ingredients |-> ingredients_if_separate,
      ingredients_if_separate |-> ingredients_if_separate,
      savings |-> savings,
      overlap_percentage |-> 0 ]

\* the dict calculate_ingredient_savings returns, from its three locals;
\* overlap_percentage is kept in tenths of a percent (round(x, 1))
SavingsDict(total_ingredients, ingredients_if_separate, savings) ==
    [ total_ingredients |-> total_ingredients,
      ingredients_if_separate |-> ingredients_if_separate,
      savings |-> savings,
      overlap_percentage |->
          IF ingredients_if_separate > 0
          THEN Round1(FloatTimes100(FloatDiv(savings, ingredients_if_separate)))
          ELSE 0 ]

\* A faulty subtraction: the operands of `savings` are exchanged.
SavingsReversed(total_ingredients, ingredients_if_separate) ==
    [ total_ingredients |-> total_ingredients,
      ingredients_if_separate |-> ingredients_if_separate,
      savings |-> total_ingredients - ingredients_if_separate,
      overlap_percentage |-> 0 ]

Savings(total_ingredients, ingredients_if_separate) ==
    SavingsDict(total_ingredients, ingredients_if_separate,
                ingredients_if_separate - total_ingredients)

calculate_ingredient_savings(recipes) ==
    Savings(count_ingredients_for_recipes(recipes),
            SumSeq([r \in 1..Len(recipes) |-> count_ingredients_for_recipes(<<recipes[r]>>)]))

\* recipe.get('title', 'Unknown Recipe')
TitleOf(recipe) == IF "title" \in DOMAIN recipe THEN recipe.title ELSE "Unknown Recipe"

\* an occurrence with the quantity as extracted, empty or not
BareOccurrence(recipe_title, line, quantity) ==
    [ key |-> line.normalized,
      kept |-> line.kept,
      detail |-> [ recipe |-> recipe_title, quantity |-> quantity,
                   original |-> line.original ] ]

\* what extract_ingredients_with_details appends for a line of a recipe
Occurrence(recipe_title, line, quantity) ==
    [ key |-> line.normalized,
      kept |-> line.kept,
      detail |-> [ recipe |-> recipe_title,
                   quantity |-> IF quantity # "" THEN quantity ELSE "as needed",
                   original |-> line.original ] ]

IsKept(occurrence) == occurrence.kept

OccurrencesOf(recipe) ==
    SelectSeq([i \in 1..Len(Originals(recipe)) |->
                  Occurrence(TitleOf(recipe), ParsedLines[Originals(recipe)[i]],
                             Quantities[Originals(recipe)[i]])],
              IsKept)

RECURSIVE OccurrencesIn(_)
\* the occurrences extract_ingredients_with_details appends, in the order it appends them
OccurrencesIn(recipes) ==
    IF recipes = <<>> THEN <<>>
    ELSE OccurrencesOf(Head(recipes)) \o OccurrencesIn(Tail(recipes))

\* ingredients_map[key]: the details appended under the key, in order
DetailsOf(occurrences, key) ==
    LET OfKey(occurrence) == occurrence.key = key
    IN  [i \in 1..Len(SelectSeq(occurrences, OfKey)) |->
            SelectSeq(occurrences, OfKey)[i].detail]

IngredientsMap(occurrences) ==
    [key \in { occurrence.key : occurrence \in Entries(occurrences) } |->
        DetailsOf(occurrences, key)]

extract_ingredients_with_details(recipes) == IngredientsMap(OccurrencesIn(recipes))

(***************************************************************************)
(* sorted(list(strings)): Python orders str by code point.                 *)
(***************************************************************************)
\* the printable ASCII characters in code-point order (without the backquote)
Ascii == " !\"#$%&'()*+,-./0123456789:;<=>?@ABCDEFGHIJKLMNOPQRSTUVWXYZ[\\]^_abcdefghijklmnopqrstuvwxyz{|}~"

Ord(c) == IF IsIn(c, Ascii) THEN CHOOSE i \in 1..Len(Ascii) : Char(Ascii, i) = c ELSE 0

RECURSIVE StrLess(_, _)
StrLess(a, b) ==
    IF b = "" THEN FALSE
    ELSE IF a = "" THEN TRUE
    ELSE IF Char(a, 1) = Char(b, 1) THEN StrLess(SubSeq(a, 2, Len(a)), SubSeq(b, 2, Len(b)))
    ELSE Ord(Char(a, 1)) < Ord(Char(b, 1))

SortedStrings(strings) ==
    [p \in 1..Cardinality(strings) |->
        CHOOSE x \in strings : Cardinality({y \in strings : StrLess(y, x)}) = p - 1]

(***************************************************************************)
(* The preference scorer.  user_prefs is the set of the user's             *)
(* UserPreference rows [preference_type, preference_value, score]; the     *)
(* unique constraint uq_user_preference leaves one row per key.  Scores    *)
(* are whole numbers: the learner only ever adds rating - 3 to a score     *)
(* that starts at 0.                                                       *)
(***************************************************************************)
\* pref_lookup.get((type, value), 0.0)
PrefLookup(prefs, type, value) ==
    IF \E pref \in prefs : pref.preference_type = type /\ pref.preference_value = value
    THEN (CHOOSE pref \in prefs :
            pref.preference_type = type /\ pref.preference_value = value).score
    ELSE 0

\* the truth value Python gives a nullable string column
Truthy(value) == value # None /\ value # ""

\* the truth value Python gives the nullable integer ready_in_minutes
TruthyMinutes(minutes) == minutes # <<>> /\ minutes[1] # 0

time_bucket(ready_in_minutes) ==
    IF ready_in_minutes < 30 THEN "quick (<30min)"
    ELSE IF ready_in_minutes <= 60 THEN "medium (30-60min)"
    ELSE "long (>60min)"

\* the scorer without its third lookup
ScoreWithoutDifficulty(recipe, prefs) ==
      (IF Truthy(recipe.cuisine_type)
       THEN PrefLookup(prefs, "cuisine_type", recipe.cuisine_type) ELSE 0)
    + (IF Truthy(recipe.dish_type)
       THEN PrefLookup(prefs, "dish_type", recipe.dish_type) ELSE 0)
    + (IF TruthyMinutes(recipe.ready_in_minutes)
       THEN PrefLookup(prefs, "cooking_time", time_bucket(recipe.ready_in_minutes[1]))
       ELSE 0)

score_recipe_for_user(recipe, prefs) ==
      (IF Truthy(recipe.cuisine_type)
       THEN PrefLookup(prefs, "cuisine_type", recipe.cuisine_type) ELSE 0)
    + (IF Truthy(recipe.dish_type)
       THEN PrefLookup(prefs, "dish_type", recipe.dish_type) ELSE 0)
    + (IF Truthy(recipe.difficulty)
       THEN PrefLookup(prefs, "difficulty", recipe.difficulty) ELSE 0)
    + (IF TruthyMinutes(recipe.ready_in_minutes)
       THEN PrefLookup(prefs, "cooking_time", time_bucket(recipe.ready_in_minutes[1]))
       ELSE 0)

(***************************************************************************)
(* itertools.combinations and sorted.                                      *)
(***************************************************************************)
Min(a, b) == IF a <= b THEN a ELSE b

RECURSIVE Binomial(_, _)
Binomial(n, m) == IF m = 0 THEN 1 ELSE (Binomial(n - 1, m - 1) * n) \div m

\* len(list(combinations(range(n), r))): the number of r-combinations of n items
CombinationCount(n, r) == IF r > n THEN 0 ELSE Binomial(n, Min(r, n - r))

\* A faulty iterator start: combinations_with_replacement() begins at 1, 1, ..., 1.
RepeatedFirst(n, r) == IF r > n THEN <<>> ELSE [j \in 1..r |-> 1]

\* A combination is the increasing tuple of the positions (1..n) it takes.  The
\* first one combinations() yields is 1..r; there is none when r > n.
FirstCombination(n, r) == IF r > n THEN <<>> ELSE [j \in 1..r |-> j]

\* the combination combinations() yields after `indices`; <<>> when it was the last
NextCombination(indices, n) ==
    LET r == Len(indices)
        movable == { j \in 1..r : indices[j] # j + n - r }
    IN  IF movable = {} THEN <<>>
        ELSE LET i == CHOOSE j \in movable : \A h \in movable : h <= j
             IN  [j \in 1..r |-> IF j < i THEN indices[j] ELSE indices[i] + 1 + (j - i)]

\* sorted(ids, key=lambda r: recipe_scores[r.id], reverse=True): a stable sort, so
\* recipes of equal score keep their order
\* the sort without reverse=True: lowest score first
SortedAscending(ids, scores) ==
    LET rank == [i \in 1..Len(ids) |->
                    Cardinality({ j \in 1..Len(ids) : scores[ids[j]] < scores[ids[i]] })
                  + Cardinality({ j \in 1..(i - 1) : scores[ids[j]] = scores[ids[i]] }) + 1]
    IN  [p \in 1..Len(ids) |-> ids[CHOOSE i \in 1..Len(ids) : rank[i] = p]]

SortedByScore(ids, scores) ==
    LET rank == [i \in 1..Len(ids) |->
                    Cardinality({ j \in 1..Len(ids) : scores[ids[j]] > scores[ids[i]] })
                  + Cardinality({ j \in 1..(i - 1) : scores[ids[j]] = scores[ids[i]] }) + 1]
    IN  [p \in 1..Len(ids) |-> ids[CHOOSE i \in 1..Len(ids) : rank[i] = p]]

(***************************************************************************)
(* The arithmetic of the combination loop.  Individual scores are whole    *)
(* numbers: the learner only ever adds rating - 3 to a score.              *)
(***************************************************************************)
\* avg_pref_score = sum(...) / num_recipes
avg_pref_score(score_sum, k) == FloatDiv(score_sum, k)

\* A faulty penalty: the budget is ignored.
NoPenalty(ingredient_count, budget) == 0

\* max(0, ingredient_count - user.max_ingredients_per_week)
ingredient_penalty(ingredient_count, budget) ==
    IF ingredient_count > budget THEN ingredient_count - budget ELSE 0

\* combined_score = avg_pref_score - (ingredient_penalty * 0.5)
combined_score(avg, penalty) == FloatMinus(avg, Halves(penalty))

\* A faulty comparison: `combined_score >= best_score`, the last best combination wins.
ImprovesOrTies(combined, best) == best = <<>> \/ ~FloatGreater(best[1], combined)

\* A faulty comparison that reads state kept between calls: ties are broken the
\* other way from the second request on.
ImprovesByCallCount(combined, best) ==
    \/ best = <<>>
    \/ IF requests > 1 THEN ~FloatGreater(best[1], combined)
                        ELSE FloatGreater(combined, best[1])

\* `combined_score > best_score`, best_score being <<>> for float('-inf')
Improves(combined, best) == best = <<>> \/ FloatGreater(combined, best[1])

\* recipe_to_dict for each recipe id of a combination
Dicts(ids) == [j \in 1..Len(ids) |-> Recipe(ids[j])]

ScoreSum(ids, scores) == SumSeq([j \in 1..Len(ids) |-> scores[ids[j]]])

(***************************************************************************)
(* Program constants and the bounds of the model.                          *)
(***************************************************************************)
max_combinations == 10000
\* the 50 of sorted_recipes[:min(50, len(sorted_recipes))]
TopCandidates == 50

\* small tables: at most MaxRecipes rows, any of the first MaxExcluded excluded
MaxRecipes == 4
MaxExcluded == 2
MaxNumRecipes == 3
MaxBudget == 3
MaxRequests == 2

Pref(type, value, score) ==
    [preference_type |-> type, preference_value |-> value, score |-> score]

\* preference tables the learner can have built
PreferenceTables ==
    { {},
      { Pref("cuisine_type", "italian", 2), Pref("cooking_time", "quick (<30min)", -1) },
      { Pref("cuisine_type", "mexican", 1), Pref("dish_type", "main course", 1),
        Pref("difficulty", "easy", -2), Pref("cooking_time", "long (>60min)", 3),
        Pref("cooking_time", "medium (30-60min)", 1) },
      { Pref("dish_type", "main course", 0), Pref("cooking_time", "long (>60min)", 1) } }

\* <<rows of the recipes table, num_recipes>> with more than max_combinations
\* combinations and more rows than TopCandidates
LargeCalls ==
    { <<TopCandidates + 3, TopCandidates - 1>>, <<TopCandidates + 3, TopCandidates>>,
      <<TopCandidates + 4, TopCandidates>>, <<TopCandidates + 4, TopCandidates + 1>> }

\* no rating is being processed
NoLearner ==
    /\ preference_rows = {}
    /\ raters = <<>>
    /\ clock = 0

\* nothing sent, nothing rated
NoHistory ==
    /\ recommendations = <<>>
    /\ outbox = <<>>
    /\ rating_calls = 0
    /\ outcome = <<>>

FreshLocals ==
    /\ available_recipes = <<>>
    /\ recipe_scores = <<>>
    /\ generated = 0
    /\ candidate_recipes = <<>>
    /\ combo = <<>>
    /\ best_combination = <<>>
    /\ best_score = <<>>
    /\ best_stats = <<>>
    /\ result = <<>>

ResetLocals ==
    /\ available_recipes' = <<>>
    /\ recipe_scores' = <<>>
    /\ generated' = 0
    /\ candidate_recipes' = <<>>
    /\ combo' = <<>>
    /\ best_combination' = <<>>
    /\ best_score' = <<>>
    /\ best_stats' = <<>>
    /\ result' = <<>>

\* the list an earlier plan of the user left: active, with an entry ticked off
EarlierList ==
    [ user_id |-> 1,
      share_token |-> 1,
      ingredients |-> << [name |-> "garlic", quantities |-> <<"3 cloves">>, checked |-> TRUE] >>,
      recipe_ids |-> <<1>>,
      recipe_titles |-> <<"Recipe 1">>,
      total_ingredients |-> 1,
      ingredient_budget |-> 20,
      is_active |-> TRUE ]

Init ==
    /\ \/ /\ recipe_rows \in 0..MaxRecipes
          /\ exclude_ids \in SUBSET (1..Min(recipe_rows, MaxExcluded))
          /\ num_recipes \in 1..MaxNumRecipes
       \/ /\ \E call \in LargeCalls : recipe_rows = call[1] /\ num_recipes = call[2]
          /\ exclude_ids = {}
    /\ \E budget \in 1..MaxBudget : user = [id |-> 1, max_ingredients_per_week |-> budget]
    /\ user_prefs \in PreferenceTables
    /\ shopping_lists \in { <<>>, <<EarlierList>> }
    /\ requests = 0
    /\ previous = <<>>
    /\ pc = "idle"
    /\ FreshLocals
    /\ direct_call = <<>>
    /\ returned = <<>>
    /\ NoLearner
    /\ NoHistory

(***************************************************************************)
(* get_available_recipes, on the exclusion list it computed.               *)
(***************************************************************************)
get_available_recipes(rows, excluded) ==
    LET Kept(id) == id \notin excluded
    IN  SelectSeq([id \in 1..rows |-> id], Kept)

\* A faulty length check: the ValueError is never raised.
NeverInsufficient(available, k) == FALSE

\* `len(available_recipes) < num_recipes`, on which the ValueError is raised
InsufficientPool(available, k) == Len(available) < k

(***************************************************************************)
(* GET /weekly-planner, up to the length check of                          *)
(* get_weekly_recommendations: the ValueError is caught by the route,      *)
(* which flashes it and renders the page with no recipes.                  *)
(***************************************************************************)
StartPlanning ==
    /\ pc = "idle"
    /\ requests < MaxRequests
    /\ requests' = requests + 1
    /\ \E available \in { get_available_recipes(recipe_rows, exclude_ids) } :
          IF InsufficientPool(available, num_recipes)
          THEN /\ pc' = "error"
               /\ UNCHANGED available_recipes
          ELSE /\ pc' = "score"
               /\ available_recipes' = available
    /\ UNCHANGED << history, learner, inputs, direct, shopping_lists, previous, recipe_scores, generated,
                    candidate_recipes, combo, best_combination, best_score, best_stats,
                    result >>

\* "Score all recipes individually"
ScoreRecipes ==
    /\ pc = "score"
    /\ recipe_scores' =
          [id \in { available_recipes[j] : j \in 1..Len(available_recipes) } |->
              score_recipe_for_user(Recipe(id), user_prefs)]
    /\ pc' = "count"
    /\ UNCHANGED << history, learner, inputs, direct, shopping_lists, requests, previous, available_recipes,
                    generated,
                    candidate_recipes, combo, best_combination, best_score, best_stats,
                    result >>

\* A faulty restriction: the first TopCandidates of the pool, unsorted.
FirstCandidates(available, scores, total_combinations) ==
    IF total_combinations > max_combinations
    THEN SubSeq(available, 1, Min(TopCandidates, Len(available)))
    ELSE available

\* the candidate list: the TopCandidates best by score past max_combinations, else all
Candidates(available, scores, total_combinations) ==
    IF total_combinations > max_combinations
    THEN LET sorted_recipes == SortedByScore(available, scores)
         IN  SubSeq(sorted_recipes, 1, Min(TopCandidates, Len(sorted_recipes)))
    ELSE available

\* total_combinations is counted by listing every combination of the pool; then
\* the candidates are chosen and the loop's iterator is created
CountCombinations ==
    /\ pc = "count"
    /\ \E total_combinations \in { CombinationCount(Len(available_recipes), num_recipes) } :
          /\ generated' = generated + total_combinations
          /\ candidate_recipes' =
                Candidates(available_recipes, recipe_scores, total_combinations)
    /\ combo' = FirstCombination(Len(candidate_recipes'), num_recipes)
    /\ pc' = IF combo' = <<>> THEN "fallback" ELSE "enumerate"
    /\ UNCHANGED << history, learner, inputs, direct, shopping_lists, requests, previous, available_recipes,
                    recipe_scores, best_combination, best_score, best_stats, result >>

\* the best_stats dict of a combination
Stats(ids, scores, ingredient_count, avg, combined) ==
    [ ingredient_count |-> ingredient_count,
      avg_preference_score |-> Round2(avg),
      combined_score |-> Round2(combined),
      individual_scores |-> [id \in Entries(ids) |-> scores[id]] ]

\* one iteration of `for combo in combinations(candidate_recipes, num_recipes)`
EvaluateCombination ==
    /\ pc = "enumerate"
    /\ \E ids \in { [j \in 1..Len(combo) |-> candidate_recipes[combo[j]]] } :
       \E ingredient_count \in { count_ingredients_for_recipes(Dicts(ids)) },
          avg \in { avg_pref_score(ScoreSum(ids, recipe_scores), num_recipes) } :
       \E combined \in
              { combined_score(avg,
                               ingredient_penalty(ingredient_count,
                                                  user.max_ingredients_per_week)) } :
          IF Improves(combined, best_score)
          THEN /\ best_score' = <<combined>>
               /\ best_combination' = ids
               /\ best_stats' = << Stats(ids, recipe_scores, ingredient_count, avg, combined) >>
          ELSE UNCHANGED << best_score, best_combination, best_stats >>
    /\ generated' = generated + 1
    /\ combo' = NextCombination(combo, Len(candidate_recipes))
    /\ pc' = IF combo' # <<>> THEN "enumerate"
             ELSE IF best_combination' = <<>> THEN "fallback" ELSE "stats"
    /\ UNCHANGED << history, learner, inputs, direct, shopping_lists, requests, previous, available_recipes,
                    recipe_scores, candidate_recipes, result >>

\* "Fallback: just take top N by preference"
FallbackTopN ==
    /\ pc = "fallback"
    /\ \E sorted_recipes \in { SortedByScore(available_recipes, recipe_scores) } :
       \E ids \in { SubSeq(sorted_recipes, 1, Min(num_recipes, Len(sorted_recipes))) } :
       \E ingredient_count \in { count_ingredients_for_recipes(Dicts(ids)) },
          avg \in { avg_pref_score(ScoreSum(ids, recipe_scores), num_recipes) } :
          /\ best_combination' = ids
          /\ best_stats' = << Stats(ids, recipe_scores, ingredient_count, avg, avg) >>
    /\ pc' = "stats"
    /\ UNCHANGED << history, learner, inputs, direct, shopping_lists, requests, previous, available_recipes,
                    recipe_scores, generated, candidate_recipes, combo, best_score, result >>

\* dict.update: the entries replace or extend those of the dict
Update(dict, entries) == entries @@ dict

\* "Calculate detailed stats", best_stats.update(...) and the return
AssembleStats ==
    /\ pc = "stats"
    /\ \E combo_dicts \in { Dicts(best_combination) } :
       \E savings_info \in { calculate_ingredient_savings(combo_dicts) },
          unique_ingredients \in { extract_unique_ingredients(combo_dicts) },
          detailed_ingredients \in { extract_ingredients_with_details(combo_dicts) } :
       \E stats \in
              { Update(best_stats[1],
                       [ savings |-> savings_info,
                         unique_ingredients |-> SortedStrings(unique_ingredients),
                         detailed_ingredients |-> detailed_ingredients,
                         max_ingredients_budget |-> user.max_ingredients_per_week,
                         within_budget |->
                             savings_info.total_ingredients
                                 <= user.max_ingredients_per_week ]) } :
          /\ best_stats' = <<stats>>
          /\ result' = << [recipes |-> best_combination, stats |-> stats] >>
    /\ pc' = "returned"
    /\ UNCHANGED << history, learner, inputs, direct, shopping_lists, requests, previous, available_recipes,
                    recipe_scores, generated, candidate_recipes, combo, best_combination,
                    best_score >>

(***************************************************************************)
(* The rest of the route: the active lists are deactivated and the new     *)
(* list is added and committed.  share_token is secrets.token_urlsafe(16), *)
(* a token no row holds yet; tokens are opaque, so the n-th token drawn is *)
(* named n.                                                                *)
(***************************************************************************)
FreshToken(lists) == Len(lists) + 1

\* a route that leaves the earlier lists as they are
LeftActive(lists, user_id) == lists

\* the update of the user's active lists to is_active = False
Deactivated(lists, user_id) ==
    [l \in 1..Len(lists) |->
        IF lists[l].user_id = user_id /\ lists[l].is_active
        THEN [lists[l] EXCEPT !.is_active = FALSE]
        ELSE lists[l]]

\* stats['detailed_ingredients'].get(ing_name, [])
Details(detailed_ingredients, ing_name) ==
    IF ing_name \in DOMAIN detailed_ingredients THEN detailed_ingredients[ing_name] ELSE <<>>

\* [d['quantity'] for d in details]
QuantitiesOf(details) == [d \in 1..Len(details) |-> details[d].quantity]

SaveShoppingList ==
    /\ pc = "returned"
    /\ \E recipes \in { result[1].recipes }, stats \in { result[1].stats } :
       \E names \in { SortedStrings(Entries(stats.unique_ingredients)) },
          share_token \in { FreshToken(shopping_lists) } :
          shopping_lists' =
              Append(Deactivated(shopping_lists, user.id),
                     [ user_id |-> user.id,
                       share_token |-> share_token,
                       ingredients |->
                           [i \in 1..Len(names) |->
                               [ name |-> names[i],
                                 quantities |->
                                     QuantitiesOf(Details(stats.detailed_ingredients,
                                                          names[i])),
                                 checked |-> FALSE ]],
                       recipe_ids |-> recipes,
                       recipe_titles |-> [j \in 1..Len(recipes) |-> Recipe(recipes[j]).title],
                       total_ingredients |-> stats.ingredient_count,
                       ingredient_budget |-> stats.max_ingredients_budget,
                       is_active |-> TRUE ])
    /\ pc' = "done"
    /\ UNCHANGED << history, learner, inputs, direct, requests, previous, locals >>

\* the response is sent; the next request starts with fresh locals
FinishRequest ==
    /\ pc \in {"done", "error"}
    /\ requests < MaxRequests
    /\ previous' = << IF pc = "error" THEN [error |-> TRUE] ELSE [error |-> FALSE, value |-> result[1]] >>
    /\ pc' = "idle"
    /\ ResetLocals
    /\ UNCHANGED << history, learner, inputs, direct, shopping_lists, requests >>

Next ==
    \/ StartPlanning
    \/ ScoreRecipes
    \/ CountCombinations
    \/ EvaluateCombination
    \/ FallbackTopN
    \/ AssembleStats
    \/ SaveShoppingList
    \/ FinishRequest

Spec == Init /\ [][Next]_vars

(***************************************************************************)
(* The preference learner.                                                 *)
(***************************************************************************)
\* the ratings the rating form and the e-mail parser accept
Ratings == 1..5

\* a delta that never lowers a score
DeltaOfLikes(rating) == IF rating > 3 THEN (rating - 3) * 1 ELSE 0

\* (rating - 3) * 1.0
calculate_score_delta(rating) == (rating - 3) * 1

\* the columns of the unique constraint uq_user_preference
KeyOf(row) == << row.user_id, row.preference_type, row.preference_value >>

\* the arguments of a call update_user_preference(user_id, preference_type,
\* preference_value, score_delta)
Call(user_id, type, value, delta) ==
    [ user_id |-> user_id, preference_type |-> type, preference_value |-> value,
      score_delta |-> delta ]

\* A caller of update_user_preference: the calls it makes one after the other
\* (those of the ratings of a batch, or calls of their own), how many of them
\* have returned, where it stands in the one at hand ("call": before line 53,
\* "commit": after the query of lines 59-69), the row the query gave (<<>> for
\* None), and the exceptions that lines 96-98 caught.
Rater(calls) == [calls |-> calls, done |-> 0, pc |-> "call", pref |-> <<>>, errors |-> 0]

Raters == DOMAIN raters

\* the call the rater is at
Current(r) == raters[r].calls[raters[r].done + 1]

AtCall(r) == raters[r].pc = "call" /\ raters[r].done < Len(raters[r].calls)

\* the guard removed: an empty value is stored like any other
InsertEmptyValue(r) ==
    /\ AtCall(r)
    /\ ~Truthy(Current(r).preference_value)
    /\ preference_rows' = preference_rows \cup
          { [ id |-> Cardinality(preference_rows) + 1,
              user_id |-> Current(r).user_id,
              preference_type |-> Current(r).preference_type,
              preference_value |-> Current(r).preference_value,
              score |-> Current(r).score_delta,
              last_updated |-> clock + 1 ] }
    /\ clock' = clock + 1
    /\ raters' = [raters EXCEPT ![r].done = @ + 1]
    /\ UNCHANGED << history, inputs, direct, shopping_lists, requests, previous, pc, locals >>

\* lines 53-54: `if not preference_value: return`
SkipEmptyValue(r) ==
    /\ AtCall(r)
    /\ ~Truthy(Current(r).preference_value)
    /\ raters' = [raters EXCEPT ![r].done = @ + 1]
    /\ UNCHANGED << history, preference_rows, clock, inputs, direct, shopping_lists, requests,
                    previous, pc, locals >>

\* lines 56-69: a session of its own, and the row with the key of the call
QueryPreference(r) ==
    /\ AtCall(r)
    /\ Truthy(Current(r).preference_value)
    /\ \E found \in { { row \in preference_rows : KeyOf(row) = KeyOf(Current(r)) } } :
          raters' = [raters EXCEPT
                       ![r].pc = "commit",
                       ![r].pref = IF found = {} THEN <<>>
                                   ELSE << CHOOSE row \in found : TRUE >>]
    /\ UNCHANGED << history, preference_rows, clock, inputs, direct, shopping_lists, requests,
                    previous, pc, locals >>

\* the score replaced by the delta instead of raised by it
CommitOverwriting(r) ==
    /\ raters[r].pc = "commit"
    /\ \E call \in {Current(r)} : \E pref \in {raters[r].pref} :
          IF pref # <<>>
          THEN /\ preference_rows' =
                     { IF row.id = pref[1].id
                       THEN [row EXCEPT !.score = call.score_delta,
                                        !.last_updated = clock + 1]
                       ELSE row : row \in preference_rows }
               /\ clock' = clock + 1
               /\ raters' = [raters EXCEPT ![r].pc = "call", ![r].pref = <<>>,
                                            ![r].done = @ + 1]
          ELSE /\ preference_rows' = preference_rows \cup
                     { [ id |-> Cardinality(preference_rows) + 1,
                         user_id |-> call.user_id,
                         preference_type |-> call.preference_type,
                         preference_value |-> call.preference_value,
                         score |-> call.score_delta,
                         last_updated |-> clock + 1 ] }
               /\ clock' = clock + 1
               /\ raters' = [raters EXCEPT ![r].pc = "call", ![r].pref = <<>>,
                                            ![r].done = @ + 1]
    /\ UNCHANGED << history, inputs, direct, shopping_lists, requests, previous, pc, locals >>

\* Lines 71-100.  With a row: pref.score += score_delta on the object the
\* query loaded, and commit() writes that sum and the time to the row.
\* Without one: a new row with score_delta, which commit() inserts unless a
\* row with the key has been committed since the query; then the unique
\* constraint raises IntegrityError, which line 96 catches and rolls back.
CommitPreference(r) ==
    /\ raters[r].pc = "commit"
    /\ \E call \in {Current(r)} : \E pref \in {raters[r].pref} :
          IF pref # <<>>
          THEN /\ preference_rows' =
                     { IF row.id = pref[1].id
                       THEN [row EXCEPT !.score = pref[1].score + call.score_delta,
                                        !.last_updated = clock + 1]
                       ELSE row : row \in preference_rows }
               /\ clock' = clock + 1
               /\ raters' = [raters EXCEPT ![r].pc = "call", ![r].pref = <<>>,
                                            ![r].done = @ + 1]
          ELSE IF \E row \in preference_rows : KeyOf(row) = KeyOf(call)
          THEN /\ raters' = [raters EXCEPT ![r].pc = "call", ![r].done = @ + 1,
                                            ![r].errors = @ + 1]
               /\ UNCHANGED << preference_rows, clock >>
          ELSE /\ preference_rows' = preference_rows \cup
                     { [ id |-> Cardinality(preference_rows) + 1,
                         user_id |-> call.user_id,
                         preference_type |-> call.preference_type,
                         preference_value |-> call.preference_value,
                         score |-> call.score_delta,
                         last_updated |-> clock + 1 ] }
               /\ clock' = clock + 1
               /\ raters' = [raters EXCEPT ![r].pc = "call", ![r].pref = <<>>,
                                            ![r].done = @ + 1]
    /\ UNCHANGED << history, inputs, direct, shopping_lists, requests, previous, pc, locals >>

\* The calls: a cuisine and a time bucket, a null and an empty value, with
\* the deltas of a 2-star and a 5-star rating.
MaxCalls == 2

CallValues ==
    { << "cuisine_type", "italian" >>, << "cooking_time", "quick (<30min)" >>,
      << "cuisine_type", None >>, << "dish_type", "" >> }

CallsOf(user_id) ==
    { Call(user_id, attribute[1], attribute[2], calculate_score_delta(rating)) :
        attribute \in CallValues, rating \in {2, 5} }

CallLists(user_id, n) == UNION { [1..m -> CallsOf(user_id)] : m \in 0..n }

\* no request to the planner and no call of the parser
NoPlanner ==
    /\ recipe_rows = 0
    /\ exclude_ids = {}
    /\ num_recipes = 1
    /\ user = [id |-> 1, max_ingredients_per_week |-> 1]
    /\ user_prefs = {}
    /\ shopping_lists = <<>>
    /\ requests = 0
    /\ previous = <<>>
    /\ pc = "idle"
    /\ FreshLocals
    /\ direct_call = <<>>
    /\ returned = <<>>

\* an empty table; a first rater with up to MaxCalls calls for user 1 and a
\* second one with up to one call for user 1 or 2
LearnerInit ==
    /\ NoPlanner
    /\ NoHistory
    /\ preference_rows = {}
    /\ clock = 0
    /\ \E first \in CallLists(1, MaxCalls) :
         \E second \in CallLists(1, 1) \cup CallLists(2, 1) :
            raters = << Rater(first), Rater(second) >>

\* no other rater is inside a call
Alone(r) == \A other \in Raters \ {r} : raters[other].pc = "call"

\* The calls one after the other, as process_ratings makes them.
SkipInTurn == \E r \in Raters : Alone(r) /\ SkipEmptyValue(r)
QueryInTurn == \E r \in Raters : Alone(r) /\ QueryPreference(r)
CommitInTurn == \E r \in Raters : Alone(r) /\ CommitPreference(r)

LearnerNext ==
    \/ SkipInTurn
    \/ QueryInTurn
    \/ CommitInTurn

LearnerSpec == LearnerInit /\ [][LearnerNext]_vars

\* The calls of two requests at once (the rate route of two server threads):
\* each has its own session, and their steps interleave.
Skip == \E r \in Raters : SkipEmptyValue(r)
Query == \E r \in Raters : QueryPreference(r)
Commit == \E r \in Raters : CommitPreference(r)

ConcurrentNext ==
    \/ Skip
    \/ Query
    \/ Commit

ConcurrentSpec == LearnerInit /\ [][ConcurrentNext]_vars

(***************************************************************************)
(* update_preferences_from_rating as one step: its calls of                *)
(* update_user_preference one after the other, no other writer in between. *)
(***************************************************************************)
\* update_user_preference run from its first line to its last with no other
\* writer in between: the table it leaves
update_user_preference(rows, call, at) ==
    IF ~Truthy(call.preference_value) THEN rows
    ELSE IF \E row \in rows : KeyOf(row) = KeyOf(call)
    THEN { IF KeyOf(row) = KeyOf(call)
           THEN [row EXCEPT !.score = row.score + call.score_delta, !.last_updated = at]
           ELSE row : row \in rows }
    ELSE rows \cup { [ id |-> Cardinality(rows) + 1,
                       user_id |-> call.user_id,
                       preference_type |-> call.preference_type,
                       preference_value |-> call.preference_value,
                       score |-> call.score_delta,
                       last_updated |-> at ] }

\* the calls without the one for the difficulty
CallsWithoutDifficulty(user_id, recipe, rating) ==
    LET delta == calculate_score_delta(rating)
    IN     (IF Truthy(recipe.cuisine_type)
            THEN << Call(user_id, "cuisine_type", recipe.cuisine_type, delta) >> ELSE <<>>)
        \o (IF Truthy(recipe.dish_type)
            THEN << Call(user_id, "dish_type", recipe.dish_type, delta) >> ELSE <<>>)
        \o (IF TruthyMinutes(recipe.ready_in_minutes)
            THEN << Call(user_id, "cooking_time",
                         time_bucket(recipe.ready_in_minutes[1]), delta) >>
            ELSE <<>>)

\* the calls update_preferences_from_rating makes for a recipe, in its order
RatingCalls(user_id, recipe, rating) ==
    LET delta == calculate_score_delta(rating)
    IN     (IF Truthy(recipe.cuisine_type)
            THEN << Call(user_id, "cuisine_type", recipe.cuisine_type, delta) >> ELSE <<>>)
        \o (IF Truthy(recipe.dish_type)
            THEN << Call(user_id, "dish_type", recipe.dish_type, delta) >> ELSE <<>>)
        \o (IF Truthy(recipe.difficulty)
            THEN << Call(user_id, "difficulty", recipe.difficulty, delta) >> ELSE <<>>)
        \o (IF TruthyMinutes(recipe.ready_in_minutes)
            THEN << Call(user_id, "cooking_time",
                         time_bucket(recipe.ready_in_minutes[1]), delta) >>
            ELSE <<>>)

RECURSIVE ApplyCalls(_, _, _)
ApplyCalls(rows, calls, at) ==
    IF calls = <<>> THEN rows
    ELSE ApplyCalls(update_user_preference(rows, calls[1], at), Tail(calls), at)

\* lines 134-164: the calls for the recipe found, one after the other
UpdateFromRecipe(rows, user_id, recipe, rating, at) ==
    ApplyCalls(rows, RatingCalls(user_id, recipe, rating), at)

\* update_preferences_from_rating: nothing for a recipe that is not in the table
update_preferences_from_rating(rows, user_id, recipe_id, rating, at) ==
    IF recipe_id \notin 1..recipe_rows THEN rows
    ELSE UpdateFromRecipe(rows, user_id, Recipe(recipe_id), rating, at)

(***************************************************************************)
(* The parser's functions called on their own.  The arguments are lists of *)
(* recipe dicts: rows of the recipes table, a row taken more than once,    *)
(* and rows whose ingredients text json.loads rejects.                     *)
(***************************************************************************)
MaxListLen == 3
MaxRecipeId == 6

\* the dict of row id; past the rows with an ingredient list, the text is not JSON
DirectRecipe(id) ==
    IF id <= Len(IngredientLists) THEN Recipe(id)
    ELSE [Recipe(id) EXCEPT !.ingredients = [tag |-> "invalid"]]

RecipeLists == UNION { [1..n -> 1..MaxRecipeId] : n \in 0..MaxListLen }

\* The recipe dicts handed to extract_unique_ingredients: those above, and
\* under the numbers 0, -1, ... the dicts with the other ingredients fields.
MaxSubsetLen == 2

DirectDict(id) ==
    IF id > 0 THEN DirectRecipe(id)
    ELSE [Recipe(1 - id) EXCEPT !.ingredients = OtherIngredients[1 - id]]

DictLists ==
    UNION { [1..n -> (1 - Len(OtherIngredients))..MaxRecipeId] : n \in 0..MaxSubsetLen }

\* the entries of list at the positions in S, in order
Keep(list, S) ==
    LET kept[i \in 0..Len(list)] ==
            IF i = 0 THEN <<>>
            ELSE IF i \in S THEN Append(kept[i - 1], list[i]) ELSE kept[i - 1]
    IN  kept[Len(list)]

\* a list of recipes with one of its sublists
UniqueCalls ==
    UNION { { [function |-> "extract_unique_ingredients", recipes |-> ids,
               part |-> Keep(ids, S)] : S \in SUBSET (1..Len(ids)) } :
            ids \in DictLists }

\* The recipes handed to score_recipe_for_user: the nullable columns hold
\* NULL, an empty string or a value, ready_in_minutes NULL or 0..MaxMinutes.
MaxMinutes == 61

ScoredRecipes ==
    [ cuisine_type : {None, "", "italian", "mexican"},
      dish_type : {None, "main course"},
      difficulty : {None, "easy"},
      ready_in_minutes : {<<>>} \cup { <<m>> : m \in 0..MaxMinutes } ]

ScoreCalls ==
    { [function |-> "score_recipe_for_user", recipe |-> recipe, user_preferences |-> prefs] :
        recipe \in ScoredRecipes, prefs \in PreferenceTables }

\* the lines the parser's own test block normalizes
test_ingredients ==
    << "2 cups diced red onions",
       "1 (15oz) can black beans, drained",
       "3 cloves garlic, minced",
       "1/2 cup fresh basil leaves",
       "Salt and pepper to taste",
       "2 tablespoons olive oil",
       "1 pound cherry tomatoes, halved" >>

NormalizeCalls ==
    { [function |-> "normalize_ingredient_name", ingredient_string |-> ing] :
        ing \in Entries(test_ingredients) }

\* names is_pantry_staple is asked about: staples, names that hold a staple
\* as a word or as part of a word, and names without any
StapleInputs ==
    { "salt", "olive oil", "red pepper flakes", "Sea Salt ", "extra virgin olive oil",
      "olive oils", "salted peanuts", "sea-salt", "peppercorn", "rice", "oily fish",
      "ice cream", "", "butternut squash", "black pepper", "water chestnut", "spoiler",
      "flour tortilla", "brown sugars" }

StapleCalls == { [function |-> "is_pantry_staple", ingredient |-> name] : name \in StapleInputs }

\* calculate_score_delta(rating), then calculate_score_delta(6 - rating)
DeltaCalls == { [function |-> "calculate_score_delta", rating |-> rating] : rating \in Ratings }

\* the lists of recipes handed to extract_ingredients_with_details
DetailCalls ==
    { [function |-> "extract_ingredients_with_details", recipes |-> ids] :
        ids \in DictLists }

\* The recipes rated: those of ScoredRecipes with no ready_in_minutes, with 0,
\* and with the minutes at the boundaries of the buckets.
LearnedRecipes ==
    { recipe \in ScoredRecipes :
        recipe.ready_in_minutes \in { <<>>, <<0>>, <<29>>, <<30>>, <<60>>, <<MaxMinutes>> } }

\* the tables the learner has built before the call: none, and those after a
\* rating of a recipe with every attribute
EarlierTables ==
    { {} } \cup
    { UpdateFromRecipe({}, 1, [ cuisine_type |-> "italian", dish_type |-> "main course",
                                difficulty |-> "easy", ready_in_minutes |-> <<20>> ],
                       rating, 0) : rating \in {1, 5} }

LearnCalls ==
    { [function |-> "update_preferences_from_rating", rows |-> rows, recipe |-> recipe,
       rating |-> rating] :
        rows \in EarlierTables, recipe \in LearnedRecipes, rating \in Ratings }

DirectInit ==
    /\ direct_call \in { [function |-> "calculate_ingredient_savings", recipes |-> ids] :
                           ids \in RecipeLists }
                       \cup UniqueCalls
                       \cup ScoreCalls
                       \cup DeltaCalls
                       \cup NormalizeCalls
                       \cup StapleCalls
                       \cup DetailCalls
                       \cup LearnCalls
    /\ returned = <<>>
    /\ recipe_rows = 0
    /\ exclude_ids = {}
    /\ num_recipes = 1
    /\ user = [id |-> 1, max_ingredients_per_week |-> 1]
    /\ user_prefs = {}
    /\ shopping_lists = <<>>
    /\ requests = 0
    /\ previous = <<>>
    /\ pc = "idle"
    /\ FreshLocals
    /\ NoLearner
    /\ NoHistory

CallSavings ==
    /\ direct_call # <<>>
    /\ direct_call.function = "calculate_ingredient_savings"
    /\ returned = <<>>
    /\ returned' =
          << calculate_ingredient_savings(
                 [r \in 1..Len(direct_call.recipes) |->
                     DirectRecipe(direct_call.recipes[r])]) >>
    /\ UNCHANGED << history, learner, inputs, direct_call, shopping_lists, requests, previous, pc, locals >>

\* what a call gave back: the value it returned, or the exception it raised
Value(value) == [raised |-> FALSE, value |-> value]
Raised(error) == [raised |-> TRUE, error |-> error]

\* extract_unique_ingredients(part), then extract_unique_ingredients(recipes);
\* count_ingredients_for_recipes is the size of what it returned
CallUnique ==
    /\ direct_call # <<>>
    /\ direct_call.function = "extract_unique_ingredients"
    /\ Len(returned) < 2
    /\ \E ids \in { IF returned = <<>> THEN direct_call.part ELSE direct_call.recipes } :
         \E recipes \in { [r \in 1..Len(ids) |-> DirectDict(ids[r])] } :
            returned' =
                Append(returned,
                       IF RaisesTypeError(recipes) THEN Raised("TypeError")
                       ELSE Value(extract_unique_ingredients(recipes)))
    /\ UNCHANGED << history, learner, inputs, direct_call, shopping_lists, requests, previous, pc, locals >>

\* extract_ingredients_with_details(recipes)
CallDetails ==
    /\ direct_call # <<>>
    /\ direct_call.function = "extract_ingredients_with_details"
    /\ returned = <<>>
    /\ \E recipes \in { [r \in 1..Len(direct_call.recipes) |->
                            DirectDict(direct_call.recipes[r])] } :
          returned' =
              << IF RaisesTypeError(recipes) THEN Raised("TypeError")
                 ELSE Value(extract_ingredients_with_details(recipes)) >>
    /\ UNCHANGED << history, learner, inputs, direct_call, shopping_lists, requests, previous, pc, locals >>

\* update_preferences_from_rating(1, recipe_id, rating) for a recipe in the
\* table: the preferences it leaves
CallLearn ==
    /\ direct_call # <<>>
    /\ direct_call.function = "update_preferences_from_rating"
    /\ returned = <<>>
    /\ returned' = << UpdateFromRecipe(direct_call.rows, 1, direct_call.recipe,
                                       direct_call.rating, 1) >>
    /\ UNCHANGED << history, learner, inputs, direct_call, shopping_lists, requests, previous, pc, locals >>

CallScore ==
    /\ direct_call # <<>>
    /\ direct_call.function = "score_recipe_for_user"
    /\ returned = <<>>
    /\ returned' =
          << score_recipe_for_user(direct_call.recipe, direct_call.user_preferences) >>
    /\ UNCHANGED << history, learner, inputs, direct_call, shopping_lists, requests, previous, pc, locals >>

CallDelta ==
    /\ direct_call # <<>>
    /\ direct_call.function = "calculate_score_delta"
    /\ Len(returned) < 2
    /\ returned' =
          Append(returned,
                 calculate_score_delta(IF returned = <<>> THEN direct_call.rating
                                       ELSE 6 - direct_call.rating))
    /\ UNCHANGED << history, learner, inputs, direct_call, shopping_lists, requests, previous, pc, locals >>

\* normalized = normalize_ingredient_name(ing); is_staple = is_pantry_staple(normalized)
CallNormalize ==
    /\ direct_call # <<>>
    /\ direct_call.function = "normalize_ingredient_name"
    /\ returned = <<>>
    /\ \E normalized \in { normalize_ingredient_name(direct_call.ingredient_string) } :
          returned' = << normalized, is_pantry_staple(normalized) >>
    /\ UNCHANGED << history, learner, inputs, direct_call, shopping_lists, requests, previous, pc, locals >>

CallStaple ==
    /\ direct_call # <<>>
    /\ direct_call.function = "is_pantry_staple"
    /\ returned = <<>>
    /\ returned' = << is_pantry_staple(direct_call.ingredient) >>
    /\ UNCHANGED << history, learner, inputs, direct_call, shopping_lists, requests, previous, pc,
                    locals >>

DirectNext ==
    \/ CallStaple
    \/ CallSavings
    \/ CallUnique
    \/ CallScore
    \/ CallDelta
    \/ CallNormalize
    \/ CallDetails
    \/ CallLearn

DirectSpec == DirectInit /\ [][DirectNext]_vars

(***************************************************************************)
(* The history of a user: the daily e-mail and its log, the ratings that   *)
(* come back by e-mail or through the rate page, and the planner reading   *)
(* both.  Time is the reading of datetime.utcnow(), in ticks of half a day.*)
(***************************************************************************)
\* `days` of get_available_recipes, and its timedelta in ticks
days == 60
TicksPerDay == 2
Window == days * TicksPerDay

\* `count` of recommend_recipes_for_user as send_daily_recommendations calls it
count == 2

\* a row of recommendations as log_recommendations inserts it: rated False,
\* rating and rated_at NULL
Recommendation(id, user_id, recipe_id, sent_at, message_id) ==
    [ id |-> id, user_id |-> user_id, recipe_id |-> recipe_id, sent_at |-> sent_at,
      email_message_id |-> message_id, rated |-> FALSE, rating |-> <<>>,
      rated_at |-> <<>> ]

\* a cutoff that leaves out the day of the cutoff itself
RecentAfterCutoff(rows, user_id, at) ==
    { rows[i].recipe_id : i \in { j \in DOMAIN rows :
          rows[j].user_id = user_id /\ rows[j].sent_at > at - Window } }

\* lines 32-39: the recipes sent to the user at or after the cutoff date
recent_recipe_ids(rows, user_id, at) ==
    { rows[i].recipe_id : i \in { j \in DOMAIN rows :
          rows[j].user_id = user_id /\ rows[j].sent_at >= at - Window } }

\* lines 42-49: the recipes the user rated 2 or lower
low_rated_recipe_ids(rows, user_id) ==
    { rows[i].recipe_id : i \in { j \in DOMAIN rows :
          rows[j].user_id = user_id /\ rows[j].rated /\ rows[j].rating[1] <= 2 } }

\* line 52: the exclusion list of get_available_recipes
ExcludeIds(rows, user_id, at) ==
    recent_recipe_ids(rows, user_id, at) \cup low_rated_recipe_ids(rows, user_id)

\* lines 138-140 of the planner: the preferences of the user
PrefsOf(rows, user_id) ==
    { Pref(row.preference_type, row.preference_value, row.score) :
        row \in { r \in rows : r.user_id = user_id } }

\* What the queries of the planner give on the tables as an operation leaves
\* them: the exclusion list of get_available_recipes and the preferences.
PlannerSees ==
    /\ exclude_ids' = ExcludeIds(recommendations', user.id, clock')
    /\ user_prefs' = PrefsOf(preference_rows', user.id)

\* what the history leaves alone: the planner and the callers on their own
others == << recipe_rows, user, num_recipes, shopping_lists, requests, previous, pc,
             locals, direct, raters >>

(***************************************************************************)
(* Time passes.                                                            *)
(***************************************************************************)
\* The times the clock is looked at: the first MaxDelay ticks, and those a
\* window later.
MaxDelay == 1
Instants == (0..MaxDelay) \cup { Window + t : t \in 0..MaxDelay }

Tick ==
    /\ pc = "idle"
    /\ \E later \in Instants :
          /\ later > clock
          /\ clock' = later
    /\ outcome' = [op |-> "tick"]
    /\ UNCHANGED << others, recommendations, outbox, rating_calls, preference_rows >>
    /\ PlannerSees

(***************************************************************************)
(* send_daily_recommendations, with log_recommendations.                   *)
(***************************************************************************)
MaxEmails == 1

\* the lists recommend_recipes_for_user can give: up to `count` recipes of
\* the table, no recipe twice
Selections ==
    { list \in UNION { [1..n -> 1..recipe_rows] : n \in 0..count } :
        \A i, j \in DOMAIN list : i # j => list[i] # list[j] }

\* The readings of datetime.utcnow() that the loop of log_recommendations
\* takes, one per row: the first is the time of the call, each other the one
\* before or later.
Readings(n, from) ==
    { times \in [1..n -> from..(from + 1)] :
        /\ n > 0 => times[1] = from
        /\ \A i \in 1..n : i > 1 => times[i - 1] <= times[i] }

\* the rows lines 40-48 add for an e-mail
LoggedRows(user_id, recipe_ids, message_id, times) ==
    [ i \in 1..Len(recipe_ids) |->
        Recommendation(Len(recommendations) + i, user_id, recipe_ids[i], times[i],
                       message_id) ]

\* Lines 62-144.  No recipes: False.  send_email raises EmailSendError:
\* False, nothing logged.  Otherwise the e-mail is in the outbox and
\* log_recommendations adds a row per recipe and commits; the commit can
\* fail: lines 54-56 log the exception and roll back, no row is written and
\* nothing is raised.  Line 129 then returns True.
send_daily_recommendations ==
    /\ pc = "idle"
    /\ Len(outbox) < MaxEmails
    /\ \E recipe_ids \in Selections :
          IF recipe_ids = <<>>
          THEN /\ outcome' = [ op |-> "send_daily_recommendations", recipe_ids |-> recipe_ids,
                               emailed |-> FALSE, logged |-> <<>>, returned |-> FALSE ]
               /\ UNCHANGED << recommendations, outbox, clock >>
          ELSE \/ /\ outcome' = [ op |-> "send_daily_recommendations",
                                  recipe_ids |-> recipe_ids,
                                  emailed |-> FALSE, logged |-> <<>>, returned |-> FALSE ]
                  /\ UNCHANGED << recommendations, outbox, clock >>
               \/ \E message_id \in { Len(outbox) + 1 } :
                  \E times \in Readings(Len(recipe_ids), clock) :
                  \E committed \in BOOLEAN :
                  \E rows \in { LoggedRows(user.id, recipe_ids, message_id, times) } :
                    /\ outbox' = Append(outbox, [ message_id |-> message_id,
                                                  recipe_ids |-> recipe_ids ])
                    /\ clock' = times[Len(times)]
                    /\ recommendations' =
                          IF committed THEN recommendations \o rows ELSE recommendations
                    /\ outcome' =
                          [ op |-> "send_daily_recommendations", recipe_ids |-> recipe_ids,
                            emailed |-> TRUE,
                            logged |-> IF committed THEN [i \in DOMAIN rows |-> rows[i].id]
                                       ELSE <<>>,
                            returned |-> TRUE ]
    /\ UNCHANGED << others, rating_calls, preference_rows >>
    /\ PlannerSees

(***************************************************************************)
(* process_ratings.                                                        *)
(***************************************************************************)
\* the stars of a rating the model gives, and the length of a list of ratings
RatingValues == {2, 3}
MaxRatings == 2
MaxRatingCalls == 2
MaxRecipeNumber == 3

\* the lists parse_ratings hands over: pairs (recipe number, rating), no pair
\* twice, in the order of the recipe numbers
RatingLists ==
    { list \in UNION { [1..n -> (1..MaxRecipeNumber) \X RatingValues] : n \in 1..MaxRatings } :
        \A i, j \in DOMAIN list : i < j => list[i][1] <= list[j][1] /\ list[i] # list[j] }

\* lines 190-206: the ids of the unrated recommendations of the user, of the
\* e-mail when a Message-ID is given
UnratedIds(rows, user_id, message_id) ==
    { i \in DOMAIN rows :
        /\ rows[i].user_id = user_id
        /\ ~rows[i].rated
        /\ message_id # <<>> => rows[i].email_message_id = message_id[1] }

\* lines 214-221: of the rows ordered by sent_at descending and id, the
\* first group of groupby: those with the sent_at of the first row
most_recent_batch(rows, user_id, message_id) ==
    LET ids == UnratedIds(rows, user_id, message_id)
        First(i) == i \in ids /\ \A j \in ids : rows[j].sent_at <= rows[i].sent_at
    IN  SelectSeq([i \in 1..Len(rows) |-> i], First)

\* a batch of every unrated row, whatever its sent_at
EveryUnrated(rows, user_id, message_id) ==
    LET ids == UnratedIds(rows, user_id, message_id)
        Unrated(i) == i \in ids
    IN  SelectSeq([i \in 1..Len(rows) |-> i], Unrated)

\* what the loop of lines 228-258 has done: the two tables, the count, and
\* the recommendations line 244 logged as marked
Progress(rows, prefs) ==
    [ recommendations |-> rows, preference_rows |-> prefs, processed_count |-> 0,
      marked |-> <<>> ]

\* lines 235-253: the recommendation at the position is rated
Mark(acc, id, rating, user_id, at) ==
    [ recommendations |->
          [acc.recommendations EXCEPT ![id].rating = << rating >>, ![id].rated = TRUE,
                                      ![id].rated_at = << at >>],
      preference_rows |->
          update_preferences_from_rating(acc.preference_rows, user_id,
                                         acc.recommendations[id].recipe_id, rating, at),
      processed_count |-> acc.processed_count + 1,
      marked |-> Append(acc.marked, id) ]

\* a body of the loop that counts the rating it skips
CountingSkipped(acc, batch, pair, user_id, at) ==
    IF pair[1] <= Len(batch)
    THEN Mark(acc, batch[pair[1]], pair[2], user_id, at)
    ELSE [acc EXCEPT !.processed_count = @ + 1]

\* lines 228-258, for one rating
RateOne(acc, batch, pair, user_id, at) ==
    IF pair[1] <= Len(batch)
    THEN Mark(acc, batch[pair[1]], pair[2], user_id, at)
    ELSE acc

RECURSIVE RateAll(_, _, _, _, _)
RateAll(acc, batch, ratings, user_id, at) ==
    IF ratings = <<>> THEN acc
    ELSE RateAll(RateOne(acc, batch, ratings[1], user_id, at), batch, Tail(ratings),
                 user_id, at)

\* the message_id a caller can pass: <<>> for None, or that of an e-mail sent
MessageIds == { <<>> } \cup { << outbox[i].message_id >> : i \in DOMAIN outbox }

\* Lines 174-269.  No unrated recommendation: 0.  Otherwise the ratings
\* one after the other against the batch computed once; the commit of line
\* 242 can fail at a rating in range, and lines 263-266 then return the count
\* reached, the ratings before it staying committed.
process_ratings ==
    /\ pc = "idle"
    /\ rating_calls < MaxRatingCalls
    /\ \E ratings \in RatingLists : \E message_id \in MessageIds :
       \E batch \in { most_recent_batch(recommendations, user.id, message_id) } :
       \E failing \in 0..Len(ratings) :
          /\ failing > 0 => ratings[failing][1] <= Len(batch)
          /\ \E handled \in { IF failing = 0 THEN ratings
                              ELSE SubSeq(ratings, 1, failing - 1) } :
             \E reached \in { RateAll(Progress(recommendations, preference_rows), batch,
                                      handled, user.id, clock) } :
                /\ recommendations' = reached.recommendations
                /\ preference_rows' = reached.preference_rows
                /\ outcome' = [ op |-> "process_ratings", ratings |-> ratings,
                                message_id |-> message_id, batch |-> batch,
                                marked |-> reached.marked, failed |-> failing > 0,
                                returned |-> reached.processed_count ]
    /\ rating_calls' = rating_calls + 1
    /\ UNCHANGED << others, outbox, clock >>
    /\ PlannerSees

(***************************************************************************)
(* POST /rate/<recommendation_id>.                                         *)
(***************************************************************************)
\* the ratings the form can post: those of the stars, and one out of range
PostedRatings == RatingValues \cup {6}

\* Lines 227-275.  No such recommendation: a redirect.  A rating out of
\* range: a redirect.  Otherwise the recommendation gets the rating, rated or
\* not, and the preferences of the first user are updated from the recipe.
rate ==
    /\ pc = "idle"
    /\ rating_calls < MaxRatingCalls
    /\ \E recommendation_id \in 1..(Len(recommendations) + 1) : \E rating \in PostedRatings :
          IF recommendation_id \notin DOMAIN recommendations \/ rating < 1 \/ rating > 5
          THEN /\ outcome' = [ op |-> "rate", recommendation_id |-> recommendation_id,
                               rating |-> rating, saved |-> FALSE ]
               /\ UNCHANGED << recommendations, preference_rows >>
          ELSE /\ recommendations' =
                     [recommendations EXCEPT ![recommendation_id].rating = << rating >>,
                                             ![recommendation_id].rated = TRUE,
                                             ![recommendation_id].rated_at = << clock >>]
               /\ preference_rows' =
                     update_preferences_from_rating(preference_rows, user.id,
                         recommendations[recommendation_id].recipe_id, rating, clock)
               /\ outcome' = [ op |-> "rate", recommendation_id |-> recommendation_id,
                               rating |-> rating, saved |-> TRUE ]
    /\ rating_calls' = rating_calls + 1
    /\ UNCHANGED << others, outbox, clock >>
    /\ PlannerSees

(***************************************************************************)
(* The history of user 1 over a table of HistoryRecipes recipes: e-mails,  *)
(* ratings on the rate page and time, and then a request to the planner    *)
(* for one or two recipes.                                                 *)
(***************************************************************************)
HistoryRecipes == 2

HistoryInit ==
    /\ recipe_rows = HistoryRecipes
    /\ num_recipes \in 1..2
    /\ user = [id |-> 1, max_ingredients_per_week |-> MaxBudget]
    /\ exclude_ids = {}
    /\ user_prefs = {}
    /\ shopping_lists = <<>>
    /\ requests = 0
    /\ previous = <<>>
    /\ pc = "idle"
    /\ FreshLocals
    /\ direct_call = <<>>
    /\ returned = <<>>
    /\ NoLearner
    /\ NoHistory

\* no request to the planner yet
Unplanned == requests = 0

\* The operations on the history, then the request and its steps; the pool is
\* too small for the fallback of the planner.

HistoryNext ==
    \/ Unplanned /\ Tick
    \/ Unplanned /\ send_daily_recommendations
    \/ Unplanned /\ rate
    \/ Unplanned /\ StartPlanning
    \/ ScoreRecipes
    \/ CountCombinations
    \/ EvaluateCombination
    \/ AssembleStats
    \/ SaveShoppingList
    \/ FinishRequest

HistorySpec == HistoryInit /\ [][HistoryNext]_vars

(***************************************************************************)
(* The e-mails and the ratings that answer them, by e-mail and on the rate *)
(* page.                                                                   *)
(***************************************************************************)
RatingNext ==
    \/ send_daily_recommendations
    \/ process_ratings
    \/ rate

RatingSpec == HistoryInit /\ [][RatingNext]_vars

(***************************************************************************)
(* Properties.                                                             *)
(***************************************************************************)
\* the ids of the pool, from the tables
Pool == (1..recipe_rows) \ exclude_ids

\* the call at hand has returned
Returned == pc = "returned"

\* the number of combinations of the pool exceeds the ceiling
PastCeiling == CombinationCount(Cardinality(Pool), num_recipes) > max_combinations

\* the ids the call returned, and its stats
ReturnedIds == result[1].recipes
ReturnedStats == result[1].stats

RECURSIVE KSubsets(_, _)
\* the subsets of 1..n with k members
KSubsets(n, k) ==
    IF k = 0 THEN { {} }
    ELSE IF n < k THEN {}
    ELSE KSubsets(n - 1, k) \cup { S \cup {n} : S \in KSubsets(n - 1, k - 1) }

\* the recipes at the positions S of a list of distinct recipes, in the order
\* of the list
Taken(list, S) ==
    LET AtS(id) == \E p \in S : list[p] = id
    IN  SelectSeq(list, AtS)

Overage(ingredient_count, budget) ==
    IF ingredient_count - budget > 0 THEN ingredient_count - budget ELSE 0

\* sum of the individual scores of the recipes `ids`, from the preference table
TotalScore(ids) ==
    SumSeq([j \in 1..Len(ids) |-> score_recipe_for_user(Recipe(ids[j]), user_prefs)])

UniqueCount(ids) == Cardinality(extract_unique_ingredients(Dicts(ids)))

\* 2 * num_recipes * (avg_pref - 0.5 * overage) as an exact whole number: the
\* order of the exact combined scores of sets of num_recipes recipes
Objective(ids) ==
    2 * TotalScore(ids)
      - num_recipes * Overage(UniqueCount(ids), user.max_ingredients_per_week)

\* C1: whenever the pool has at most 10,000 combinations of num_recipes
\* recipes, the set the planner returns has a combined score (average
\* preference minus half the overage over the budget) that is greater than or
\* equal to the combined score of every num_recipes-subset of the pool.
C1_Optimal ==
    (Returned /\ ~PastCeiling) =>
        \A S \in KSubsets(Len(available_recipes), num_recipes) :
            Objective(ReturnedIds) >= Objective(Taken(available_recipes, S))

\* The planner returned a set that another subset beats on preference alone:
\* the overage decided.
C1_Witness ==
    /\ Returned /\ ~PastCeiling
    /\ \E S \in KSubsets(Len(available_recipes), num_recipes) :
          TotalScore(Taken(available_recipes, S)) > TotalScore(ReturnedIds)

\* C2: when the pool holds fewer than num_recipes recipes the request ends in
\* the insufficient-pool error and nothing was computed on the way: no recipe
\* scored, no combination generated or evaluated, no result returned, and the
\* shopping lists are the ones the request found, none deactivated and none
\* added.
C2_NoPartialWork ==
    Cardinality(Pool) < num_recipes =>
        /\ pc \in {"idle", "error"}
        /\ requests > 0 /\ pc = "idle" => previous = << [error |-> TRUE] >>
        /\ FreshLocals
        /\ shopping_lists \in { <<>>, <<EarlierList>> }

\* The error was raised on a pool of two recipes for three, the user having an
\* active list.
C2_Witness ==
    /\ pc = "error"
    /\ Cardinality(Pool) = 2 /\ num_recipes = 3
    /\ shopping_lists = <<EarlierList>>

\* C3: every call that returns gives exactly num_recipes recipes, with
\* pairwise distinct ids, all of the pool, on each of the three paths (all
\* combinations, the TopCandidates restriction, the top-N fallback).
C3_ValidSet ==
    Returned =>
        /\ Len(ReturnedIds) = num_recipes
        /\ Cardinality(Entries(ReturnedIds)) = num_recipes
        /\ Entries(ReturnedIds) \subseteq Pool

\* The fallback produced the set: no combination was evaluated.
C3_Witness == Returned /\ best_score = <<>> /\ num_recipes > TopCandidates

Place(id) ==
    Cardinality({ other \in Pool :
                    \/ recipe_scores[other] > recipe_scores[id]
                    \/ recipe_scores[other] = recipe_scores[id] /\ other <= id })

\* C5 as stated: past the ceiling, every member of the returned set is one of
\* the TopCandidates highest-scoring recipes of the pool, whatever num_recipes.
C5_AllInTop ==
    (Returned /\ PastCeiling) => \A id \in Entries(ReturnedIds) : Place(id) <= TopCandidates

C5_Members ==
    (Returned /\ PastCeiling) =>
        /\ Len(ReturnedIds) = num_recipes
        /\ Cardinality(Entries(ReturnedIds)) = num_recipes
        /\ num_recipes <= TopCandidates =>
              \A id \in Entries(ReturnedIds) : Place(id) <= TopCandidates
        /\ num_recipes > TopCandidates =>
              /\ Entries(ReturnedIds) = { id \in Pool : Place(id) <= num_recipes }
              /\ best_score = <<>>

\* the steps the call at hand has left at most: one per combination of the
\* candidates not yet evaluated, and one per stage
Remaining ==
    CASE pc = "score" ->
             CombinationCount(Min(TopCandidates, Cardinality(Pool)), num_recipes) + 4
      [] pc = "count" ->
             CombinationCount(Min(TopCandidates, Cardinality(Pool)), num_recipes) + 3
      [] pc = "enumerate" ->
             CombinationCount(Len(candidate_recipes), num_recipes)
               - (generated - CombinationCount(Cardinality(Pool), num_recipes)) + 2
      [] pc = "fallback" -> 2
      [] pc = "stats" -> 1
      [] OTHER -> 0

C5_Progress ==
    (PastCeiling /\ pc \in {"score", "count", "enumerate", "fallback", "stats"})
        => Remaining' < Remaining /\ Remaining' >= 0 /\ pc' # "error"

\* C5, amended: past the ceiling the call returns, every step taking it
\* nearer to the return by a measure that starts at no more than the number
\* of combinations of the restricted candidates plus 4, and it returns
\* num_recipes distinct recipes; when num_recipes is at most TopCandidates
\* every one of them is among the TopCandidates highest-scoring recipes of the
\* pool; when num_recipes is larger no combination is evaluated and the set is
\* the num_recipes highest-scoring recipes of the pool.
C5_Restricted == []C5_Members /\ [][C5_Progress]_vars

\* A call past the ceiling returned a set of the restricted candidates that
\* leaves out a recipe of the pool's first places in pool order.
C5_Witness ==
    /\ Returned /\ PastCeiling /\ num_recipes <= TopCandidates
    /\ best_score # <<>>
    /\ \E id \in Pool : id <= TopCandidates /\ Place(id) > TopCandidates

\* C6 as stated: past the ceiling, the combinations one call generates are at
\* most those of the restricted candidate list.
C6_BoundedGeneration ==
    PastCeiling =>
        generated <= CombinationCount(Min(TopCandidates, Cardinality(Pool)), num_recipes)

\* the combined score the loop computes for the candidates at the positions S
ScoreOf(ids) ==
    combined_score(avg_pref_score(ScoreSum(ids, recipe_scores), num_recipes),
                   ingredient_penalty(UniqueCount(ids), user.max_ingredients_per_week))

ScoreAt(S) == ScoreOf(Taken(candidate_recipes, S))

\* the positions of the best combination in the candidate list
BestPositions ==
    { p \in 1..Len(candidate_recipes) : candidate_recipes[p] \in Entries(best_combination) }

\* combinations() yields A before B: the least position in one and not the
\* other is in A
YieldedBefore(A, B) ==
    \E a \in A \ B : \A b \in B \ A : a < b

\* the loop is over and has chosen
Chosen == pc = "stats" /\ best_score # <<>>

C7_FirstOfTheBest ==
    Chosen =>
        \A S \in KSubsets(Len(candidate_recipes), num_recipes) :
            \A score \in { ScoreAt(S) } :
                /\ ~FloatGreater(score, best_score[1])
                /\ score = best_score[1] => ~YieldedBefore(S, BestPositions)

C7_NoReplacementOnTie ==
    (pc = "enumerate" /\ best_score # <<>> /\ best_combination' # best_combination)
        => FloatGreater(best_score'[1], best_score[1])

\* C7: of the combinations the loop evaluates, the one returned has the
\* greatest combined score and is the first yielded among those with that
\* score; a combination whose score equals the best so far never replaces it.
C7_TieBreak == []C7_FirstOfTheBest /\ [][C7_NoReplacementOnTie]_vars

\* The loop chose a combination and a later one has the same combined score.
C7_Witness ==
    /\ Chosen
    /\ \E S \in KSubsets(Len(candidate_recipes), num_recipes) :
          /\ ScoreAt(S) = best_score[1]
          /\ YieldedBefore(BestPositions, S)
          /\ TotalScore(Taken(candidate_recipes, S)) # TotalScore(best_combination)

\* |a - b| <= c
Within(a, b, c) == a - b <= c /\ b - a <= c

\* C8: for a set chosen by the loop, ingredient_count is the number of unique
\* ingredients of the set, avg_preference_score is the sum of the members'
\* scores over num_recipes and combined_score is that average minus half the
\* overage, both to two decimals, and individual_scores has exactly the ids of
\* the set with their scores.
C8_StatsOfTheSet ==
    (Returned /\ best_score # <<>>) =>
        /\ ReturnedStats.ingredient_count = UniqueCount(ReturnedIds)
        /\ Within(200 * TotalScore(ReturnedIds),
                  2 * num_recipes * ReturnedStats.avg_preference_score, num_recipes)
        /\ Within(100 * Objective(ReturnedIds),
                  2 * num_recipes * ReturnedStats.combined_score, num_recipes)
        /\ DOMAIN ReturnedStats.individual_scores = Entries(ReturnedIds)
        /\ \A id \in Entries(ReturnedIds) :
              ReturnedStats.individual_scores[id] =
                  score_recipe_for_user(Recipe(id), user_prefs)

\* The loop chose a set over the budget whose average is no whole number of
\* hundredths.
C8_Witness ==
    /\ Returned /\ best_score # <<>>
    /\ ReturnedStats.ingredient_count > user.max_ingredients_per_week
    /\ (100 * TotalScore(ReturnedIds)) % num_recipes # 0
    /\ ReturnedStats.combined_score < 0

\* C9: in every result, within_budget is true exactly when ingredient_count
\* is at most the budget, and ingredient_count equals savings.total_ingredients
\* and the length of unique_ingredients.
C9_WithinBudget ==
    Returned =>
        /\ ReturnedStats.within_budget <=>
              ReturnedStats.ingredient_count <= user.max_ingredients_per_week
        /\ ReturnedStats.max_ingredients_budget = user.max_ingredients_per_week
        /\ ReturnedStats.ingredient_count = ReturnedStats.savings.total_ingredients
        /\ ReturnedStats.ingredient_count = Len(ReturnedStats.unique_ingredients)

\* A result over the budget whose recipes share an ingredient.
C9_Witness ==
    /\ Returned
    /\ ~ReturnedStats.within_budget
    /\ ReturnedStats.savings.savings > 0

\* a direct call of the function has returned or raised
Called(function) ==
    /\ direct_call # <<>>
    /\ direct_call.function = function
    /\ returned # <<>>

\* C10: for every list of recipes, calculate_ingredient_savings returns
\* ingredients_if_separate >= total_ingredients and savings =
\* ingredients_if_separate - total_ingredients >= 0, and overlap_percentage is
\* 0 when ingredients_if_separate is 0.
C10_Savings ==
    Called("calculate_ingredient_savings") =>
        /\ returned[1].ingredients_if_separate >= returned[1].total_ingredients
        /\ returned[1].savings =
              returned[1].ingredients_if_separate - returned[1].total_ingredients
        /\ returned[1].savings >= 0
        /\ returned[1].ingredients_if_separate = 0 => returned[1].overlap_percentage = 0

\* The function returned for recipes that share ingredients.
C10_Witness ==
    /\ Called("calculate_ingredient_savings")
    /\ returned[1].savings > 0
    /\ returned[1].overlap_percentage > 0

\* the two calls of extract_unique_ingredients have both returned a set
BothReturned ==
    /\ Called("extract_unique_ingredients")
    /\ Len(returned) = 2
    /\ ~returned[1].raised
    /\ ~returned[2].raised

\* C11: for a list of recipes B and a sublist A of it,
\* extract_unique_ingredients(A) is a subset of extract_unique_ingredients(B),
\* and so count_ingredients_for_recipes(A) <= count_ingredients_for_recipes(B).
C11_Monotone ==
    BothReturned =>
        /\ returned[1].value \subseteq returned[2].value
        /\ Cardinality(returned[1].value) <= Cardinality(returned[2].value)

\* A proper sublist with ingredients of its own, and a whole list with more.
C11_Witness ==
    /\ BothReturned
    /\ Len(direct_call.part) < Len(direct_call.recipes)
    /\ returned[1].value # {}
    /\ Cardinality(returned[1].value) < Cardinality(returned[2].value)

\* the recipe dicts of the call that gave returned[j]
ArgumentOf(j) ==
    LET ids == IF j = 1 THEN direct_call.part ELSE direct_call.recipes
    IN  [r \in 1..Len(ids) |-> DirectDict(ids[r])]

\* the ingredient lines of recipes whose ingredients field holds a list: the
\* 'original' text of a structured entry, a bare string itself
LinesOf(recipes) ==
    UNION { { IF entry.tag = "str" THEN entry.value
              ELSE IF "original" \in DOMAIN entry.value THEN entry.value.original
              ELSE "" :
              entry \in Entries(recipe.ingredients.value) } :
            recipe \in { r \in Entries(recipes) : r.ingredients.tag = "json" } }

\* every recipe of the list holds a list of ingredients, or unparsable text,
\* or no ingredients key
ListsOnly(recipes) ==
    \A recipe \in Entries(recipes) :
        recipe.ingredients.tag \in {"json", "invalid", "absent"}

\* C12: the set returned by extract_unique_ingredients holds no empty string
\* and no pantry staple, and is exactly the set of the non-empty, non-staple
\* normalized keys of the ingredient lines of the recipes.
C12_ExactKeys ==
    Called("extract_unique_ingredients") =>
        \A j \in 1..Len(returned) :
            ~returned[j].raised =>
                /\ "" \notin returned[j].value
                /\ \A key \in returned[j].value : ~is_pantry_staple(key)
                /\ ListsOnly(ArgumentOf(j)) =>
                      returned[j].value =
                          { key \in { ParsedLines[line].normalized :
                                        line \in LinesOf(ArgumentOf(j)) } :
                              key # "" /\ ~is_pantry_staple(key) }

\* A call whose recipes hold a staple, a line that normalizes to nothing, a
\* bare string and structured entries, and that returned some keys.
C12_Witness ==
    /\ Called("extract_unique_ingredients")
    /\ Len(returned) = 2
    /\ ~returned[2].raised
    /\ ListsOnly(ArgumentOf(2))
    /\ returned[2].value # {}
    /\ \E line \in LinesOf(ArgumentOf(2)) : ParsedLines[line].normalized = ""
    /\ \E line \in LinesOf(ArgumentOf(2)) :
          is_pantry_staple(ParsedLines[line].normalized)
    /\ \E recipe \in Entries(ArgumentOf(2)) :
          /\ recipe.ingredients.tag = "json"
          /\ \E entry \in Entries(recipe.ingredients.value) : entry.tag = "str"

\* the recipes of the list whose ingredients field holds a list
Usable(recipes) == SelectSeq(recipes, LAMBDA recipe : recipe.ingredients.tag = "json")

\* C13: a recipe whose ingredients field cannot be used as an ingredient list
\* (unparsable text, a null or absent value, JSON text that is not a list) is
\* treated as a recipe without ingredients: the aggregator raises no error
\* and returns what it returns for the other recipes.
C13_NeverAnError ==
    Called("extract_unique_ingredients") =>
        \A j \in 1..Len(returned) :
            /\ ~returned[j].raised
            /\ returned[j].value = extract_unique_ingredients(Usable(ArgumentOf(j)))

\* the table's entry for (type, value), 0 when it has none
Entry(table, type, value) ==
    LET rows == { row \in table : row.preference_type = type /\ row.preference_value = value }
    IN  IF rows = {} THEN 0 ELSE (CHOOSE row \in rows : TRUE).score

\* the entry of an attribute that is present (not null, not empty), else 0
Attribute(table, type, value) ==
    IF value \in {None, ""} THEN 0 ELSE Entry(table, type, value)

\* the sum over cuisine_type, dish_type and difficulty
AttributeSum(recipe, table) ==
      Attribute(table, "cuisine_type", recipe.cuisine_type)
    + Attribute(table, "dish_type", recipe.dish_type)
    + Attribute(table, "difficulty", recipe.difficulty)

\* the bucket by the fixed boundaries
BucketOf(m) ==
    IF m < 30 THEN "quick (<30min)"
    ELSE IF m <= 60 THEN "medium (30-60min)"
    ELSE "long (>60min)"

\* C14: score_recipe_for_user returns the sum, over the attributes of the
\* recipe that are present among cuisine_type, dish_type, difficulty and the
\* cooking-time bucket, of the table's entry for (type, value), 0 for an
\* absent entry; a missing attribute adds 0, and with an empty table every
\* recipe scores 0.  (What a ready_in_minutes of 0 adds is C15's question.)
C14_SumOfEntries ==
    Called("score_recipe_for_user") =>
        \E recipe \in {direct_call.recipe} : \E table \in {direct_call.user_preferences} :
            /\ table = {} => returned[1] = 0
            /\ recipe.ready_in_minutes = <<>> => returned[1] = AttributeSum(recipe, table)
            /\ recipe.ready_in_minutes \notin {<<>>, <<0>>} =>
                  returned[1] = AttributeSum(recipe, table)
                                + Entry(table, "cooking_time",
                                        BucketOf(recipe.ready_in_minutes[1]))
            /\ recipe.ready_in_minutes = <<0>> =>
                  returned[1] \in { AttributeSum(recipe, table),
                                     AttributeSum(recipe, table)
                                     + Entry(table, "cooking_time", BucketOf(0)) }

\* A recipe with a null attribute and three present ones, all with entries.
C14_Witness ==
    /\ Called("score_recipe_for_user")
    /\ direct_call.recipe.cuisine_type = None
    /\ Entry(direct_call.user_preferences, "dish_type", direct_call.recipe.dish_type) = 1
    /\ Entry(direct_call.user_preferences, "difficulty", direct_call.recipe.difficulty) = -2
    /\ direct_call.recipe.ready_in_minutes = <<60>>
    /\ returned[1] = 0

\* C15: for every ready_in_minutes m that is not null, m = 0 included, the
\* entry of the bucket of m (quick below 30, medium from 30 to 60, long above
\* 60) is added to the score.
C15_BucketAdded ==
    (Called("score_recipe_for_user") /\ direct_call.recipe.ready_in_minutes # <<>>) =>
        returned[1] = AttributeSum(direct_call.recipe, direct_call.user_preferences)
                      + Entry(direct_call.user_preferences, "cooking_time",
                              BucketOf(direct_call.recipe.ready_in_minutes[1]))

\* the documented table of deltas
DeltaTable == [rating \in Ratings |-> << -2, -1, 0, 1, 2 >>[rating]]

\* C16: calculate_score_delta maps a rating r of 1..5 to r - 3 (-2, -1, 0,
\* +1, +2), and delta(r) = -delta(6 - r).
C16_Delta ==
    Called("calculate_score_delta") =>
        /\ returned[1] = direct_call.rating - 3
        /\ returned[1] = DeltaTable[direct_call.rating]
        /\ Len(returned) = 2 => returned[1] = -returned[2]

\* Both calls made for a rating below the neutral one.
C16_Witness ==
    /\ Called("calculate_score_delta")
    /\ Len(returned) = 2
    /\ direct_call.rating = 1
    /\ returned = << -2, 2 >>

\* the example lines of the documentation with their documented keys
DocumentedKeys ==
    { << "2 cups diced red onions", "onion" >>,
      << "1 (15oz) can black beans, drained", "black bean" >>,
      << "3 cloves garlic, minced", "garlic" >>,
      << "1/2 cup fresh basil leaves", "basil" >> }

\* C20: normalize_ingredient_name maps each documented example line to its
\* documented key: "2 cups diced red onions" to "onion", "1 (15oz) can black
\* beans, drained" to "black bean", "3 cloves garlic, minced" to "garlic",
\* "1/2 cup fresh basil leaves" to "basil".
C20_DocumentedExamples ==
    Called("normalize_ingredient_name") =>
        \A example \in DocumentedKeys :
            direct_call.ingredient_string = example[1] => returned[1] = example[2]

\* the rater is at a call with a null or empty value
AtEmptyValue(r) == AtCall(r) /\ Current(r).preference_value \in {None, ""}

\* C17: update_user_preference called with an empty or null preference value
\* does nothing: no row is created, no score or timestamp is modified, and
\* no error is raised.
C17_NoOp ==
    [][\A r \in Raters :
          (AtEmptyValue(r) /\ raters'[r] # raters[r]) =>
              /\ preference_rows' = preference_rows
              /\ clock' = clock
              /\ raters'[r].errors = raters[r].errors
              /\ raters'[r].done = raters[r].done + 1]_vars

\* A call with a null value and one with an empty value have returned, the
\* first after a call that stored a row.
C17_Witness ==
    /\ raters # <<>>
    /\ preference_rows # {}
    /\ raters[1].done = 2
    /\ raters[1].calls[2].preference_value = None
    /\ raters[2].done = 1
    /\ raters[2].calls[1].preference_value = ""

RECURSIVE DeltaSum(_, _, _)
\* the sum of the deltas of the first n calls of the list that carry the key
DeltaSum(calls, n, key) ==
    IF n = 0 THEN 0
    ELSE DeltaSum(calls, n - 1, key)
         + (IF KeyOf(calls[n]) = key THEN calls[n].score_delta ELSE 0)

RECURSIVE AppliedBy(_, _)
\* the sum of the deltas of the calls for the key that the first n raters
\* have completed
AppliedBy(n, key) ==
    IF n = 0 THEN 0
    ELSE AppliedBy(n - 1, key) + DeltaSum(raters[n].calls, raters[n].done, key)

\* the keys with a value among the calls of the raters
CallKeys ==
    { key \in UNION { { KeyOf(call) : call \in Entries(raters[r].calls) } : r \in Raters } :
        key[3] \notin {None, ""} }

\* the score the table holds for the key, 0 without a row
Stored(key) ==
    LET rows == { row \in preference_rows : KeyOf(row) = key }
    IN  IF rows = {} THEN 0 ELSE (CHOOSE row \in rows : TRUE).score

\* one row per key at most, rows for keys of calls only, and the score of
\* every key the sum of the deltas of the completed calls for it
C18_SumOfDeltas ==
    /\ \A row \in preference_rows : KeyOf(row) \in CallKeys
    /\ \A row, other \in preference_rows : KeyOf(row) = KeyOf(other) => row = other
    /\ \A key \in CallKeys : Stored(key) = AppliedBy(Len(raters), key)

\* a step of a rater leaves the rows of the other keys as they are
C18_OtherKeysUnchanged ==
    \A r \in Raters :
        raters'[r] # raters[r] =>
            \E key \in {KeyOf(Current(r))} :
                { row \in preference_rows' : KeyOf(row) # key }
                    = { row \in preference_rows : KeyOf(row) # key }

\* C18: when the calls of update_user_preference follow one another, starting
\* from an empty table, the score stored for every (user, type, value) key is
\* the sum of the deltas applied to the key (0 without a row), also when a key
\* comes several times in one batch, and a call changes no other key's score.
C18_Sequential == []C18_SumOfDeltas /\ [][C18_OtherKeysUnchanged]_vars

\* The first rater applied two deltas to one key; another key has a row too.
C18_Witness ==
    /\ raters # <<>>
    /\ raters[1].done = 2
    /\ KeyOf(raters[1].calls[1]) = KeyOf(raters[1].calls[2])
    /\ raters[1].calls[1].score_delta # raters[1].calls[2].score_delta
    /\ raters[2].done = 1
    /\ Cardinality(preference_rows) = 2
    /\ \E row \in preference_rows : row.score = 1

\* every rater has made all its calls
AllDone == raters # <<>> /\ \A r \in Raters : raters[r].done = Len(raters[r].calls)

\* C19: when two calls of update_user_preference for one key run at once,
\* their read, modify and commit steps interleaved, the key absent at first or
\* not, the score stored in the end is the initial score plus both deltas.
C19_NoLostUpdate ==
    AllDone => \A key \in CallKeys : Stored(key) = AppliedBy(Len(raters), key)

\* the name as the function compares it: lower case, without outer blanks
Compared(name) == strip(lower(name))

\* the staple stands in the text at position i with no word character
\* directly before or after it
WholeWordAt(text, staple, i) ==
    /\ SubSeq(text, i, i + Len(staple) - 1) = staple
    /\ i > 1 => Char(text, i - 1) \notin WordChars
    /\ i + Len(staple) <= Len(text) => Char(text, i + Len(staple)) \notin WordChars

\* equal to a staple, or a multi-word staple as a substring, or a
\* single-word staple as a whole word
StapleByTheRule(text) ==
    \/ text \in PANTRY_STAPLES
    \/ \E staple \in PANTRY_STAPLES :
          /\ \E i \in 1..Len(staple) : Char(staple, i) = " "
          /\ \E i \in 1..(Len(text) - Len(staple) + 1) :
                SubSeq(text, i, i + Len(staple) - 1) = staple
    \/ \E staple \in PANTRY_STAPLES :
          /\ \A i \in 1..Len(staple) : Char(staple, i) # " "
          /\ \E i \in 1..(Len(text) - Len(staple) + 1) : WholeWordAt(text, staple, i)

\* C21: is_pantry_staple(x) is true exactly when x equals a staple of the
\* fixed set, or contains a multi-word staple as a substring, or contains a
\* single-word staple as a whole word; a single-word staple inside a longer
\* word does not match.  "salt" and "olive oil" are staples, "red pepper
\* flakes" is not.
C21_StapleRule ==
    Called("is_pantry_staple") =>
        /\ returned[1] = StapleByTheRule(Compared(direct_call.ingredient))
        /\ direct_call.ingredient \in {"salt", "olive oil"} => returned[1]
        /\ direct_call.ingredient = "red pepper flakes" => ~returned[1]
        /\ direct_call.ingredient \in {"salted peanuts", "spoiler", "oily fish"} =>
              ~returned[1]

\* A name that holds the staple "salt" as a word, not as the whole name.
C21_Witness ==
    /\ Called("is_pantry_staple")
    /\ direct_call.ingredient = "sea-salt"
    /\ returned[1]

\* the call returned without the loop having evaluated a combination
FellBack == Returned /\ best_score = <<>>

\* C22: when the loop evaluated no combination, the planner returns the
\* num_recipes recipes of the pool with the highest individual scores, in
\* descending order with ties in pool order, and reports combined_score equal
\* to avg_preference_score, without a penalty, also when the set's
\* ingredient_count is over the budget.
C22_Fallback ==
    FellBack =>
        /\ Len(ReturnedIds) = num_recipes
        /\ \A p \in 1..Len(ReturnedIds) : Place(ReturnedIds[p]) = p
        /\ ReturnedStats.combined_score = ReturnedStats.avg_preference_score
        /\ ReturnedStats.combined_score
              = Round2(FloatDiv(TotalScore(ReturnedIds), num_recipes))
        /\ ReturnedStats.ingredient_count = UniqueCount(ReturnedIds)

\* A fallback set over the budget whose first recipe is not the pool's first.
C22_Witness ==
    /\ FellBack
    /\ ReturnedStats.ingredient_count > user.max_ingredients_per_week
    /\ ReturnedIds[1] # 1
    /\ ReturnedStats.combined_score = ReturnedStats.avg_preference_score

\* the recommendations of the recipe to the user
SentTo(user_id, recipe_id) ==
    { i \in DOMAIN recommendations :
        recommendations[i].user_id = user_id /\ recommendations[i].recipe_id = recipe_id }

\* sent at or after the cutoff of `days` days before now
SentRecently(i) == recommendations[i].sent_at >= clock - Window

\* rated with two stars or fewer
RatedLow(i) == recommendations[i].rated /\ recommendations[i].rating[1] <= 2

\* C23: after any e-mails, ratings and passing of time, no recipe of a weekly
\* plan was sent to the user within the last 60 days, and none has a
\* recommendation the user rated 2 or lower.
C23_PlanAvoidsHistory ==
    Returned =>
        \A p \in DOMAIN ReturnedIds : \A i \in SentTo(user.id, ReturnedIds[p]) :
            ~SentRecently(i) /\ ~RatedLow(i)

\* A plan of the one recipe left: it was sent before the window and rated 3,
\* the other was sent as long ago and rated 2.
C23_Witness ==
    /\ Returned
    /\ Len(ReturnedIds) = 1
    /\ \E i \in SentTo(user.id, ReturnedIds[1]) :
          recommendations[i].rated /\ recommendations[i].rating[1] = 3
    /\ \E i \in DOMAIN recommendations : RatedLow(i) /\ ~SentRecently(i)

\* the last operation was a call of process_ratings that no exception ended
Processed == outcome # <<>> /\ outcome.op = "process_ratings" /\ ~outcome.failed

\* the recommendations logged for the e-mail, in the order of the recipes
RowsOf(message_id) ==
    LET OfMessage(i) == recommendations[i].email_message_id = message_id
    IN  SelectSeq([i \in 1..Len(recommendations) |-> i], OfMessage)

\* the recommendations of the last e-mail
LastRows == IF outbox = <<>> THEN <<>> ELSE RowsOf(outbox[Len(outbox)].message_id)

\* the call found every recommendation of the last e-mail unrated: each is
\* unrated still or was marked by the call
FoundUnrated ==
    \A p \in DOMAIN LastRows :
        \/ ~recommendations[LastRows[p]].rated
        \/ \E k \in DOMAIN outcome.marked : outcome.marked[k] = LastRows[p]

\* C24: when the recipes r1..rn of the last e-mail were logged by one call of
\* log_recommendations and are unrated, process_ratings takes their n
\* recommendations as the most recent batch, and a rating (i, s) with
\* 1 <= i <= n marks the recommendation of r_i as rated.
C24_PositionMapping ==
    (Processed /\ LastRows # <<>> /\ FoundUnrated) =>
        /\ outcome.batch = LastRows
        /\ \A k \in DOMAIN outcome.ratings :
              outcome.ratings[k][1] <= Len(LastRows) =>
                  recommendations[LastRows[outcome.ratings[k][1]]].rated

\* the active shopping lists of the user
ActiveLists(user_id) ==
    { l \in DOMAIN shopping_lists :
        shopping_lists[l].user_id = user_id /\ shopping_lists[l].is_active }

\* the route has committed the list of the plan it got
Saved == pc = "done"

\* the names of the entries of a shopping list
EntryNames(list) == { list.ingredients[i].name : i \in DOMAIN list.ingredients }

\* C25: after any sequence of requests to /weekly-planner, successful or
\* failing for want of recipes, the user has at most one active shopping
\* list; after a successful one the active list is the list the request
\* created, with the ids of the recipes selected, the plan's ingredient_count
\* and budget, and one unchecked entry for each unique ingredient.
C25_OneActiveList ==
    /\ Cardinality(ActiveLists(user.id)) <= 1
    /\ Saved =>
          LET created == shopping_lists[Len(shopping_lists)]
          IN  /\ ActiveLists(user.id) = { Len(shopping_lists) }
              /\ created.recipe_ids = ReturnedIds
              /\ created.total_ingredients = ReturnedStats.ingredient_count
              /\ created.ingredient_budget = user.max_ingredients_per_week
              /\ EntryNames(created) = extract_unique_ingredients(Dicts(ReturnedIds))
              /\ Len(created.ingredients) = Cardinality(EntryNames(created))
              /\ \A i \in DOMAIN created.ingredients : ~created.ingredients[i].checked

\* The second plan of a user who had a list before: two lists deactivated, a
\* third with several entries active.
C25_Witness ==
    /\ Saved
    /\ Len(shopping_lists) = 3
    /\ ~shopping_lists[1].is_active /\ ~shopping_lists[2].is_active
    /\ Len(shopping_lists[3].ingredients) > 1

\* the recipes handed to extract_ingredients_with_details
DetailRecipes ==
    [r \in 1..Len(direct_call.recipes) |-> DirectDict(direct_call.recipes[r])]

\* the original text of line i of recipe r
TextAt(recipes, position) == Originals(recipes[position[1]])[position[2]]

\* the lines of the recipes whose normalized name is not empty and not a
\* staple, as <<recipe, line>>
KeptAt(recipes) ==
    { position \in UNION { { << r, i >> : i \in DOMAIN Originals(recipes[r]) } :
                             r \in DOMAIN recipes } :
        ParsedLines[TextAt(recipes, position)].kept }

\* those of them with the normalized name `key`
KeptUnder(recipes, key) ==
    { position \in KeptAt(recipes) :
        ParsedLines[TextAt(recipes, position)].normalized = key }

\* recipe order, then the order of the lines of a recipe
NotAfter(p, q) == p[1] < q[1] \/ (p[1] = q[1] /\ p[2] <= q[2])

\* how many of the positions come up to p
Rank(positions, p) == Cardinality({ q \in positions : NotAfter(q, p) })

\* the call returned a map
DetailsReturned ==
    Called("extract_ingredients_with_details") /\ ~returned[1].raised

\* C26: extract_ingredients_with_details records one occurrence for every
\* ingredient line whose normalized name is not empty and not a staple; its
\* keys are the names extract_unique_ingredients gives for the same recipes;
\* the occurrences under a key are in the order of the recipes and, within a
\* recipe, of its lines; an occurrence whose line has no extractable quantity
\* has the quantity "as needed".
C26_Occurrences ==
    DetailsReturned =>
        LET recipes == DetailRecipes
            map == returned[1].value
        IN  /\ DOMAIN map = extract_unique_ingredients(recipes)
            /\ \A key \in DOMAIN map :
                  /\ Len(map[key]) = Cardinality(KeptUnder(recipes, key))
                  /\ \A p \in KeptUnder(recipes, key) :
                        map[key][Rank(KeptUnder(recipes, key), p)] =
                            [ recipe |-> TitleOf(recipes[p[1]]),
                              quantity |->
                                  IF extract_quantity_from_ingredient(TextAt(recipes, p)) = ""
                                  THEN "as needed"
                                  ELSE extract_quantity_from_ingredient(TextAt(recipes, p)),
                              original |-> TextAt(recipes, p) ]
            /\ \A p \in KeptAt(recipes) :
                  ParsedLines[TextAt(recipes, p)].normalized \in DOMAIN map

\* Two different recipes with a name in common, once with a quantity and once
\* without one.
C26_Witness ==
    /\ DetailsReturned
    /\ \E key \in DOMAIN returned[1].value :
          /\ Len(returned[1].value[key]) = 2
          /\ returned[1].value[key][1].recipe # returned[1].value[key][2].recipe
          /\ \E j \in 1..2 : returned[1].value[key][j].quantity = "as needed"
          /\ \E j \in 1..2 : returned[1].value[key][j].quantity # "as needed"

\* the recipe has the attribute value, the time bucket being that of its
\* ready_in_minutes
Carries(recipe, type, value) ==
    \/ type = "cuisine_type" /\ recipe.cuisine_type = value
    \/ type = "dish_type" /\ recipe.dish_type = value
    \/ type = "difficulty" /\ recipe.difficulty = value
    \/ /\ type = "cooking_time"
       /\ recipe.ready_in_minutes # <<>>
       /\ time_bucket(recipe.ready_in_minutes[1]) = value

\* the rated recommendations of the user whose recipe has the attribute value
RatedCarrying(user_id, type, value) ==
    { i \in DOMAIN recommendations :
        /\ recommendations[i].user_id = user_id
        /\ recommendations[i].rated
        /\ Carries(Recipe(recommendations[i].recipe_id), type, value) }

RECURSIVE DeltaOfRatings(_)
\* the sum of (rating - 3) over the recommendations
DeltaOfRatings(ids) ==
    IF ids = {} THEN 0
    ELSE LET i == CHOOSE j \in ids : TRUE
         IN  (recommendations[i].rating[1] - 3) + DeltaOfRatings(ids \ {i})

\* C27: after any ratings by e-mail and on the rate page, the stored score of
\* every preference key of the user is the sum of (current rating - 3) over
\* the user's rated recommendations whose recipe has that attribute value:
\* each recommendation counts with one rating.
C27_OneDeltaEach ==
    \A row \in preference_rows :
        row.user_id = user.id =>
            row.score = DeltaOfRatings(RatedCarrying(user.id, row.preference_type,
                                                     row.preference_value))

\* the attributes of the recipe for which learner and scorer have a key:
\* the columns that are not null and not empty, and the time bucket of a
\* ready_in_minutes that is not null and not 0 (0: see C15)
KeysOf(recipe) ==
    { << type, recipe[type] >> :
        type \in { t \in {"cuisine_type", "dish_type", "difficulty"} :
                     recipe[t] \notin {None, ""} } }
    \cup { << "cooking_time", BucketOf(recipe.ready_in_minutes[m]) >> :
             m \in { j \in DOMAIN recipe.ready_in_minutes : recipe.ready_in_minutes[j] # 0 } }

\* C28: update_preferences_from_rating for a recipe R and a rating r changes
\* score_recipe_for_user(R) by n * (r - 3), n being the number of attributes
\* R has among cuisine_type, dish_type, difficulty and the cooking-time
\* bucket, and leaves the score of every recipe that has no attribute value
\* and no time bucket in common with R as it was.
C28_LearnerMeetsScorer ==
    Called("update_preferences_from_rating") =>
        LET before == direct_call.rows
            after == returned[1]
            R == direct_call.recipe
        IN  /\ score_recipe_for_user(R, after)
                  = score_recipe_for_user(R, before)
                    + Cardinality(KeysOf(R)) * (direct_call.rating - 3)
            /\ \A Q \in LearnedRecipes :
                  KeysOf(Q) \cap KeysOf(R) = {} =>
                      score_recipe_for_user(Q, after) = score_recipe_for_user(Q, before)

\* A recipe with four attributes rated 5 on a table that has its keys: its
\* score has changed by 8.
C28_Witness ==
    /\ Called("update_preferences_from_rating")
    /\ Cardinality(KeysOf(direct_call.recipe)) = 4
    /\ direct_call.rating = 5
    /\ direct_call.rows # {}
    /\ score_recipe_for_user(direct_call.recipe, returned[1])
          = score_recipe_for_user(direct_call.recipe, direct_call.rows) + 8

\* the step is a call of process_ratings
ProcessStep == rating_calls' = rating_calls + 1 /\ outcome'.op = "process_ratings"

\* the unrated recommendations the call looks at, before the call
UnratedBefore ==
    { i \in DOMAIN recommendations :
        /\ recommendations[i].user_id = user.id
        /\ ~recommendations[i].rated
        /\ outcome'.message_id # <<>> =>
              recommendations[i].email_message_id = outcome'.message_id[1] }

\* the most recent of them
LatestUnrated ==
    { i \in UnratedBefore :
        \A j \in UnratedBefore : recommendations[j].sent_at <= recommendations[i].sent_at }

\* the ratings of the call whose recipe number is within the batch
InRange == { k \in DOMAIN outcome'.ratings : outcome'.ratings[k][1] <= Cardinality(LatestUnrated) }

RECURSIVE LearnedFrom(_, _, _)
\* the preferences after the ratings `pairs` of the recipes of the batch
LearnedFrom(rows, pairs, recipe_ids) ==
    IF pairs = <<>> THEN rows
    ELSE LearnedFrom(update_preferences_from_rating(rows, user.id, recipe_ids[pairs[1][1]],
                                                    pairs[1][2], clock),
                     Tail(pairs), recipe_ids)

\* the ratings of a list with a recipe number up to n, in the order of the list
NumberedUpTo(pairs, n) ==
    LET Numbered(pair) == pair[1] <= n
    IN  SelectSeq(pairs, Numbered)

\* C29: process_ratings skips a rating whose recipe number is greater than
\* the size of the most recent unrated batch: no recommendation and no
\* preference changes for it, and it is not counted.  The count returned is
\* the number of ratings whose recommendation was marked as rated; without an
\* unrated recommendation the call returns 0 and changes nothing.
C29_SkippedAndCounted ==
    [][ ProcessStep =>
          /\ outcome'.returned = Len(outcome'.marked)
          /\ \A k \in DOMAIN outcome'.marked :
                /\ outcome'.marked[k] \in LatestUnrated
                /\ recommendations'[outcome'.marked[k]].rated
          /\ ~outcome'.failed =>
                /\ outcome'.returned = Cardinality(InRange)
                /\ preference_rows' =
                      LearnedFrom(preference_rows,
                                  NumberedUpTo(outcome'.ratings, Cardinality(LatestUnrated)),
                                  [n \in DOMAIN outcome'.batch |->
                                      recommendations[outcome'.batch[n]].recipe_id])
          /\ \A i \in DOMAIN recommendations :
                (\A k \in InRange : outcome'.batch[outcome'.ratings[k][1]] # i) =>
                    recommendations'[i] = recommendations[i]
          /\ InRange = {} =>
                /\ outcome'.returned = 0
                /\ recommendations' = recommendations
                /\ preference_rows' = preference_rows
          /\ UnratedBefore = {} => InRange = {} ]_vars

\* A call with a rating for the one unrated recipe and one for a recipe
\* number past the batch: it returns 1.
C29_Witness ==
    /\ Processed
    /\ Len(outcome.ratings) = 2
    /\ outcome.ratings[1][1] <= Len(outcome.batch)
    /\ outcome.ratings[2][1] > Len(outcome.batch)
    /\ outcome.returned = 1
    /\ recommendations[outcome.batch[outcome.ratings[1][1]]].rated

\* the last operation was a run of send_daily_recommendations
Sent == outcome # <<>> /\ outcome.op = "send_daily_recommendations"

\* an unrated recommendation of the recipe with the Message-ID is in the table
LoggedFor(recipe_id, message_id) ==
    \E i \in DOMAIN recommendations :
        /\ recommendations[i].recipe_id = recipe_id
        /\ recommendations[i].email_message_id = message_id
        /\ ~recommendations[i].rated

\* C30: when send_daily_recommendations returns True, the e-mail was sent and
\* an unrated recommendation with its Message-ID is committed for each of its
\* recipes; when sending the e-mail fails, it returns False and adds no
\* recommendation.
C30_TrueMeansLogged ==
    Sent =>
        /\ outcome.returned =>
              /\ outcome.emailed
              /\ \A p \in DOMAIN outcome.recipe_ids :
                    LoggedFor(outcome.recipe_ids[p], outbox[Len(outbox)].message_id)
        /\ ~outcome.emailed => ~outcome.returned /\ outcome.logged = <<>>
====
